---- MODULE Spec2Model ----
(***************************************************************************)
(* A model of bushel, a crawler and archiver of Tor directory documents:   *)
(* the archive (bushel/archive.py), the downloader (bushel/downloader.py)  *)
(* the read-through cache (bushel/cache.py) and the module-level path      *)
(* functions of the archive and the downloader.                            *)
(*                                                                         *)
(* Text is modelled as a sequence of tokens: a token is one character of a *)
(* variable part (a digit, a hex character, a base64 character) or one     *)
(* whole literal of the source ("relay-descriptors", "-consensus", ...).  *)
(* A coroutine is modelled as a task record whose pc names the await it is *)
(* suspended at; one action is the code that runs between two awaits.      *)
(***************************************************************************)
EXTENDS Integers, Sequences, FiniteSets, TLC

(***************************************************************************)
(* Text helpers                                                            *)
(***************************************************************************)

\* str.lower() on one character (only hex letters occur in digests)
LowerChar(c) ==
    CASE c = "A" -> "a" [] c = "B" -> "b" [] c = "C" -> "c"
      [] c = "D" -> "d" [] c = "E" -> "e" [] c = "F" -> "f"
      [] OTHER -> c

\* str.upper() on one character
UpperChar(c) ==
    CASE c = "a" -> "A" [] c = "b" -> "B" [] c = "c" -> "C"
      [] c = "d" -> "D" [] c = "e" -> "E" [] c = "f" -> "F"
      [] OTHER -> c

Lower(s) == [i \in 1..Len(s) |-> LowerChar(s[i])]

Upper(s) == [i \in 1..Len(s) |-> UpperChar(s[i])]

DigitChar(n) ==
    CASE n = 0 -> "0" [] n = 1 -> "1" [] n = 2 -> "2" [] n = 3 -> "3"
      [] n = 4 -> "4" [] n = 5 -> "5" [] n = 6 -> "6" [] n = 7 -> "7"
      [] n = 8 -> "8" [] OTHER -> "9"

RECURSIVE Dec(_)
\* f"{n}": the decimal digits of a natural number
Dec(n) == IF n < 10 THEN <<DigitChar(n)>> ELSE Dec(n \div 10) \o <<DigitChar(n % 10)>>

\* f"{n:02d}": at least two digits, zero-padded
Pad2(n) == IF n < 10 THEN <<"0">> \o Dec(n) ELSE Dec(n)

\* os.path.join(a, b)
PathJoin(a, b) ==
    IF b # <<>> /\ b[1] = "/" THEN b
    ELSE IF a = <<>> \/ a[Len(a)] = "/" THEN a \o b
    ELSE a \o <<"/">> \o b

RECURSIVE PathJoinAll(_)
\* os.path.join(c1, c2, ..., cn)
PathJoinAll(cs) ==
    IF Len(cs) = 1 THEN cs[1]
    ELSE PathJoin(PathJoinAll(SubSeq(cs, 1, Len(cs) - 1)), cs[Len(cs)])

\* os.path.dirname(path): everything before the last "/"
DirName(path) ==
    LET slashes == {i \in 1..Len(path) : path[i] = "/"}
    IN  IF slashes = {} THEN <<>>
        ELSE LET last == CHOOSE i \in slashes : \A j \in slashes : j <= i
             IN  IF last = 1 THEN <<"/">> ELSE SubSeq(path, 1, last - 1)

\* The value of one base64 character (the characters the model's hashes use)
B64Value(c) ==
    CASE c = "A" -> 0  [] c = "B" -> 1  [] c = "Q" -> 16 [] c = "Z" -> 25
      [] c = "a" -> 26 [] c = "k" -> 36 [] c = "z" -> 51 [] c = "0" -> 52
      [] c = "9" -> 61 [] c = "+" -> 62 [] OTHER -> 63

HexChar(n) ==
    CASE n = 10 -> "a" [] n = 11 -> "b" [] n = 12 -> "c"
      [] n = 13 -> "d" [] n = 14 -> "e" [] n = 15 -> "f"
      [] OTHER -> DigitChar(n)

\* bytes([b]).hex()
HexByte(b) == <<HexChar(b \div 16), HexChar(b % 16)>>

RECURSIVE B64Hex(_)
\* base64.decodebytes(s).hex() for data characters s (padding removed):
\* four characters give three bytes, a final group of three gives two bytes
\* and a final group of two gives one byte
B64Hex(s) ==
    IF Len(s) >= 4
    THEN LET n == ((B64Value(s[1]) * 64 + B64Value(s[2])) * 64 + B64Value(s[3])) * 64
                  + B64Value(s[4])
         IN  HexByte(n \div 65536) \o HexByte((n \div 256) % 256) \o HexByte(n % 256)
             \o B64Hex(SubSeq(s, 5, Len(s)))
    ELSE IF Len(s) = 3
    THEN LET n == (((B64Value(s[1]) * 64 + B64Value(s[2])) * 64 + B64Value(s[3])) \div 4)
         IN  HexByte(n \div 256) \o HexByte(n % 256)
    ELSE IF Len(s) = 2
    THEN HexByte((B64Value(s[1]) * 64 + B64Value(s[2])) \div 16)
    ELSE <<>>

\* The result of a call that raised instead of returning a path
PathError == <<"!error">>

(***************************************************************************)
(* Times                                                                   *)
(***************************************************************************)

DateTime(y, mo, d, h, mi, s) ==
    [year |-> y, month |-> mo, day |-> d, hour |-> h, minute |-> mi, second |-> s]

\* valid_after_now(): the wall clock with minute and second set to 0
valid_after_now(utcnow) == [utcnow EXCEPT !.minute = 0, !.second = 0]

(***************************************************************************)
(* Archive paths (bushel/archive.py)                                       *)
(***************************************************************************)

archive_path == <<"/srv/archive">>

BRIDGE_DESCRIPTORS == <<"bridge-descriptors">>

RELAY_DESCRIPTORS == <<"relay-descriptors">>

MARKER_CONSENSUS == <<"consensus">>

MARKER_EXTRA_INFO == <<"extra-info">>

MARKER_MICRODESC == <<"microdesc">>

MARKER_SERVER_DESCRIPTOR == <<"server-descriptor">>

MARKER_VOTE == <<"vote">>

MARKER_STATUSES == <<"statuses">>

collector_422_filename(valid_after, fingerprint) ==
    Dec(valid_after.year) \o Pad2(valid_after.month) \o Pad2(valid_after.day)
    \o <<"-">> \o Pad2(valid_after.hour) \o Pad2(valid_after.minute)
    \o Pad2(valid_after.second) \o <<"-">> \o Upper(fingerprint)

\* The "YYYY-MM-DD-HH-MM-SS-" prefix shared by the 4.3.x filenames
DashedTime(valid_after) ==
    Dec(valid_after.year) \o <<"-">> \o Pad2(valid_after.month) \o <<"-">>
    \o Pad2(valid_after.day) \o <<"-">> \o Pad2(valid_after.hour) \o <<"-">>
    \o Pad2(valid_after.minute) \o <<"-">> \o Pad2(valid_after.second) \o <<"-">>

collector_431_filename(valid_after) == DashedTime(valid_after) \o <<"consensus">>

collector_433_filename(valid_after, v3ident, digest) ==
    DashedTime(valid_after) \o <<"vote-">> \o Upper(v3ident) \o <<"-">> \o Upper(digest)

collector_434_filename(valid_after) ==
    DashedTime(valid_after) \o <<"consensus-">> \o <<"microdesc">>

collector_521_substructure(published, digest) ==
    LET d == Lower(digest)
    IN  PathJoinAll(<<Dec(published.year), Pad2(published.month), <<d[1]>>, <<d[2]>>>>)

\* collector_521_path that leaves the case of the digest as it is given
collector_521_path_KeepsCase(subdirectory, marker, published, digest) ==
    PathJoinAll(<<subdirectory, marker,
                  PathJoinAll(<<Dec(published.year), Pad2(published.month),
                                <<digest[1]>>, <<digest[2]>>>>),
                  digest>>)

collector_521_path(subdirectory, marker, published, digest) ==
    LET d == Lower(digest)
    IN  PathJoinAll(<<subdirectory, marker, collector_521_substructure(published, d), d>>)

\* collector_522_substructure with the day as it prints, without padding
collector_522_substructure_Unpadded(valid_after) ==
    PathJoinAll(<<Dec(valid_after.year), Pad2(valid_after.month), Dec(valid_after.day)>>)

collector_522_substructure(valid_after) ==
    PathJoinAll(<<Dec(valid_after.year), Pad2(valid_after.month), Pad2(valid_after.day)>>)

collector_522_path(subdirectory, marker, valid_after, filename) ==
    PathJoinAll(<<subdirectory, marker, collector_522_substructure(valid_after), filename>>)

collector_533_substructure(valid_after) ==
    PathJoinAll(<<Dec(valid_after.year), Pad2(valid_after.month)>>)

collector_534_consensus_path(valid_after) ==
    PathJoinAll(<<RELAY_DESCRIPTORS, MARKER_MICRODESC,
                  collector_533_substructure(valid_after), <<"consensus-microdesc">>,
                  Pad2(valid_after.day), collector_434_filename(valid_after)>>)

collector_534_microdescriptor_path(valid_after, digest) ==
    LET d == Lower(digest)
    IN  PathJoinAll(<<RELAY_DESCRIPTORS, MARKER_MICRODESC,
                      collector_533_substructure(valid_after), <<"micro">>,
                      <<d[1]>>, <<d[2]>>, d>>)

\* path_for(descriptor) when descriptor is a str: a path relative to the root
path_for_str(relative) == PathJoin(archive_path, relative)

bridge_server_descriptor_path(published, digest) ==
    path_for_str(collector_521_path(BRIDGE_DESCRIPTORS, MARKER_SERVER_DESCRIPTOR,
                                    published, digest))

bridge_extra_info_descriptor_path(published, digest) ==
    path_for_str(collector_521_path(BRIDGE_DESCRIPTORS, MARKER_EXTRA_INFO,
                                    published, digest))

bridge_status_path(valid_after, fingerprint) ==
    path_for_str(collector_522_path(BRIDGE_DESCRIPTORS, MARKER_STATUSES, valid_after,
                                    collector_422_filename(valid_after, fingerprint)))

relay_server_descriptor_path(published, digest) ==
    path_for_str(collector_521_path(RELAY_DESCRIPTORS, MARKER_SERVER_DESCRIPTOR,
                                    published, digest))

relay_extra_info_descriptor_path(published, digest) ==
    path_for_str(collector_521_path(RELAY_DESCRIPTORS, MARKER_EXTRA_INFO,
                                    published, digest))

\* The hash is padded with len % 3 "=" characters and base64-decoded; the
\* decoding raises when that padding does not complete the last group.
relay_microdescriptor_path(valid_after, digest) ==
    LET pad == Len(digest) % 3
        rem == Len(digest) % 4
        ok  == rem = 0 \/ (rem = 2 /\ pad >= 2) \/ (rem = 3 /\ pad >= 1)
    IN  IF ok
        THEN path_for_str(collector_534_microdescriptor_path(valid_after, B64Hex(digest)))
        ELSE PathError

relay_microdescriptor_consensus_path(valid_after) ==
    path_for_str(collector_534_consensus_path(valid_after))

relay_consensus_path(valid_after) ==
    path_for_str(collector_522_path(RELAY_DESCRIPTORS, MARKER_CONSENSUS, valid_after,
                                    collector_431_filename(valid_after)))

relay_vote_path(valid_after, v3ident, digest) ==
    path_for_str(collector_522_path(RELAY_DESCRIPTORS, MARKER_VOTE, valid_after,
                                    collector_433_filename(valid_after, v3ident, digest)))

(***************************************************************************)
(* Documents                                                               *)
(***************************************************************************)

T_NOV == DateTime(2018, 11, 19, 15, 1, 2)

T_JAN == DateTime(2019, 1, 5, 7, 8, 9)

T_OCT == DateTime(2018, 10, 31, 22, 5, 7)

T_CONS == DateTime(2018, 11, 19, 15, 0, 0)

NoTime == DateTime(0, 0, 0, 0, 0, 0)

\* A descriptor as stem presents it: its class, the time it carries
\* (published or valid_after; a microdescriptor carries none, `time` is then
\* the valid-after time of the consensus that lists it and is known to the
\* caller only), what digest() returns, its raw bytes, and for a network
\* status its kind, flavor, authority and the SHA-1 of its signed part.
Descriptor(cls, time, digest, raw, cons, vote, micro, v3ident, sha1) ==
    [cls |-> cls, time |-> time, digest |-> digest, raw |-> raw,
     is_consensus |-> cons, is_vote |-> vote, is_microdescriptor |-> micro,
     v3ident |-> v3ident, sha1 |-> sha1]

SD_A == Descriptor("RelayDescriptor", T_NOV, <<"A", "9", "4">>,
                   <<"router a94", "router-signature">>, FALSE, FALSE, FALSE, <<>>, <<>>)

SD_B == Descriptor("RelayDescriptor", T_NOV, <<"B", "3", "8">>,
                   <<"router b38", "router-signature">>, FALSE, FALSE, FALSE, <<>>, <<>>)

EI_A == Descriptor("RelayExtraInfoDescriptor", T_OCT, <<"A", "9", "4">>,
                   <<"extra-info a94", "router-signature">>, FALSE, FALSE, FALSE, <<>>, <<>>)

EI_B == Descriptor("RelayExtraInfoDescriptor", T_JAN, <<"B", "3", "8">>,
                   <<"extra-info b38", "router-signature">>, FALSE, FALSE, FALSE, <<>>, <<>>)

MD_Z == Descriptor("Microdescriptor", T_CONS, <<"Z", "a", "k", "+", "/", "Q", "0">>,
                   <<"onion-key", "id ed25519">>, FALSE, FALSE, FALSE, <<>>, <<>>)

CONS_NS == Descriptor("NetworkStatusDocumentV3", T_CONS, <<>>,
                      <<"network-status-version 3", "directory-signature">>,
                      TRUE, FALSE, FALSE, <<>>, <<>>)

CONS_MD == Descriptor("NetworkStatusDocumentV3", T_CONS, <<>>,
                      <<"network-status-version 3 microdesc", "directory-signature">>,
                      TRUE, FALSE, TRUE, <<>>, <<>>)

VOTE_D == Descriptor("NetworkStatusDocumentV3", T_CONS, <<>>,
                     <<"network-status-version 3 vote", "directory-signature">>,
                     FALSE, TRUE, FALSE, <<"D", "5", "8", "6">>, <<"6", "6", "3", "b">>)

\* A second vote of the same authority for the same valid-after time
VOTE_E == Descriptor("NetworkStatusDocumentV3", T_CONS, <<>>,
                     <<"network-status-version 3 vote", "published later", "directory-signature">>,
                     FALSE, TRUE, FALSE, <<"D", "5", "8", "6">>, <<"1", "a", "2", "c">>)

\* The vote of another authority for the same valid-after time
VOTE_O == Descriptor("NetworkStatusDocumentV3", T_CONS, <<>>,
                     <<"network-status-version 3 vote", "dir-source tor26", "directory-signature">>,
                     FALSE, TRUE, FALSE, <<"1", "4", "C", "1">>, <<"9", "0", "f", "e">>)

BR_SD == Descriptor("BridgeDescriptor", T_JAN, <<"C", "0", "1">>,
                    <<"router bridge", "router-digest">>, FALSE, FALSE, FALSE, <<>>, <<>>)

BR_EI == Descriptor("BridgeExtraInfoDescriptor", T_NOV, <<"E", "f", "2">>,
                    <<"extra-info bridge", "router-digest">>, FALSE, FALSE, FALSE, <<>>, <<>>)

\* A network status that is neither a consensus nor a vote
NS_ODD == Descriptor("NetworkStatusDocumentV3", T_CONS, <<>>,
                     <<"network-status-version 3 odd", "directory-signature">>,
                     FALSE, FALSE, FALSE, <<>>, <<>>)

GettableDocs == {SD_A, EI_B, MD_Z, CONS_NS, CONS_MD, VOTE_D}

Docs == GettableDocs \cup {SD_B, EI_A, BR_SD, BR_EI, NS_ODD, VOTE_E, VOTE_O}

\* The documents the archive coroutines of the model store and read: one
\* digest-sharded descriptor, the microdescriptor, one consensus, the vote,
\* one bridge descriptor and the unsupported status
ArchiveGetDocs == {SD_A, MD_Z, CONS_MD, VOTE_D}

ArchiveDocs == ArchiveGetDocs \cup {BR_SD, NS_ODD}

\* The documents the archive directory holds when the DirectoryArchive is
\* created over it, kept from an earlier run: a second vote of the vote's
\* authority and the vote of another authority
KeptDocs == {VOTE_E, VOTE_O}

\* hashlib.sha1(signed part).hexdigest().upper(), the digest of a vote
VoteDigest(d) == Upper(d.sha1)

\* descriptor.type_annotation(): the "@type <name> <major>.<minor>" line
type_annotation(d) ==
    CASE d.cls = "RelayDescriptor" -> <<"@type server-descriptor 1.0">>
      [] d.cls = "RelayExtraInfoDescriptor" -> <<"@type extra-info 1.0">>
      [] d.cls = "Microdescriptor" -> <<"@type microdescriptor 1.0">>
      [] d.cls = "BridgeDescriptor" -> <<"@type bridge-server-descriptor 1.2">>
      [] d.cls = "BridgeExtraInfoDescriptor" -> <<"@type bridge-extra-info 1.3">>
      [] d.cls = "NetworkStatusDocumentV3" /\ d.is_vote
           -> <<"@type network-status-vote-3 1.0">>
      [] d.cls = "NetworkStatusDocumentV3" /\ d.is_microdescriptor
           -> <<"@type network-status-microdesc-consensus-3 1.0">>
      [] OTHER -> <<"@type network-status-consensus-3 1.0">>

\* prepare_annotated_content that puts no line end after the annotation
prepare_annotated_content_NoLineEnd(d) == type_annotation(d) \o d.raw

prepare_annotated_content(d) == type_annotation(d) \o <<"\n">> \o d.raw

\* path_for with a last branch that files a document of an unknown kind
\* under a catch-all directory instead of raising
path_for_FilesUnknown(d, utcnow) ==
    CASE d.cls = "BridgeDescriptor" -> bridge_server_descriptor_path(d.time, d.digest)
      [] d.cls = "BridgeExtraInfoDescriptor" -> bridge_extra_info_descriptor_path(d.time, d.digest)
      [] d.cls = "RelayDescriptor" -> relay_server_descriptor_path(d.time, d.digest)
      [] d.cls = "RelayExtraInfoDescriptor" -> relay_extra_info_descriptor_path(d.time, d.digest)
      [] d.cls = "Microdescriptor" -> relay_microdescriptor_path(valid_after_now(utcnow), d.digest)
      [] d.cls = "NetworkStatusDocumentV3" /\ d.is_consensus /\ d.is_microdescriptor
           -> relay_microdescriptor_consensus_path(d.time)
      [] d.cls = "NetworkStatusDocumentV3" /\ d.is_consensus /\ ~d.is_microdescriptor
           -> relay_consensus_path(d.time)
      [] d.cls = "NetworkStatusDocumentV3" /\ ~d.is_consensus /\ d.is_vote
           -> relay_vote_path(d.time, d.v3ident, VoteDigest(d))
      [] OTHER -> path_for_str(<<"unknown", "/", "document">>)

\* DirectoryArchive.path_for(descriptor) for a descriptor object; utcnow is
\* the wall clock at the call
path_for(d, utcnow) ==
    IF d.cls = "BridgeDescriptor"
    THEN bridge_server_descriptor_path(d.time, d.digest)
    ELSE IF d.cls = "BridgeExtraInfoDescriptor"
    THEN bridge_extra_info_descriptor_path(d.time, d.digest)
    ELSE IF d.cls = "RelayDescriptor"
    THEN relay_server_descriptor_path(d.time, d.digest)
    ELSE IF d.cls = "RelayExtraInfoDescriptor"
    THEN relay_extra_info_descriptor_path(d.time, d.digest)
    ELSE IF d.cls = "Microdescriptor"
    THEN relay_microdescriptor_path(valid_after_now(utcnow), d.digest)
    ELSE IF d.cls = "NetworkStatusDocumentV3" /\ d.is_consensus
    THEN IF d.is_microdescriptor
         THEN relay_microdescriptor_consensus_path(d.time)
         ELSE relay_consensus_path(d.time)
    ELSE IF d.cls = "NetworkStatusDocumentV3" /\ d.is_vote
    THEN relay_vote_path(d.time, d.v3ident, VoteDigest(d))
    ELSE PathError

(***************************************************************************)
(* State                                                                   *)
(***************************************************************************)

VARIABLES
    utcnow,         \* the wall clock, datetime.datetime.utcnow()
    files,          \* the archive on disk: path -> bytes of the file
    dirs,           \* the directories os.makedirs has created
    file_permits,   \* permits of max_file_concurrency_lock that are taken
    atask,          \* the DirectoryArchive coroutines (store and getters)
    stored          \* history: the documents whose store() has returned, with the path written

archive_vars == <<utcnow, files, dirs, file_permits, atask, stored>>

VARIABLES
    endpoints,              \* DirectoryDownloader.endpoints
    extra_info_endpoints,   \* DirectoryDownloader.extra_info_endpoints
    current_consensus,      \* DirectoryDownloader.current_consensus: its flavor, or "None"
    routers,                \* current_consensus.routers.values()
    descriptor_cache,       \* DirectoryDownloader.descriptor_cache
    mode,                   \* history: the argument of the latest set_mode and how the call ended
    http_permits,           \* permits of max_concurrency_lock that are taken
    dtask,                  \* the DirectoryDownloader coroutines
    requested               \* history: the kind and digests of the relay_*_descriptors call made

download_vars ==
    <<endpoints, extra_info_endpoints, current_consensus, routers, descriptor_cache, mode,
      http_permits, dtask, requested>>

VARIABLES
    descriptors,    \* DirectoryCache.descriptors: kind -> digest -> descriptor
    ctask,          \* the DirectoryCache coroutines
    returned,       \* history: the descriptors that calls have returned, by kind
    calls,          \* history: the number of calls made
    voting          \* the DirectoryCache.vote() coroutine

cache_vars == <<descriptors, ctask, returned, calls, voting>>

VARIABLES
    invoked         \* the latest call of a module-level function: name, arguments, result

VARIABLES
    itemizer,       \* a DirectoryDocumentItemizer: its attributes
    eaten,          \* how the latest eat() of the itemizer ended, and the number of calls made
    liner,          \* a BandwidthFileLiner: its attributes
    lined           \* how the latest eat() of the liner ended, and the number of calls made

parser_vars == <<itemizer, eaten, liner, lined>>

VARIABLES
    discovered,     \* the latest discover_server_descriptors() of the scraper: arguments, locals, outcome
    scraped         \* the latest _scrape() of the scraper: argument and outcome

scraper_vars == <<discovered, scraped>>

vars == <<archive_vars, download_vars, cache_vars, invoked, parser_vars, scraper_vars>>

\* DirectoryArchive(max_file_concurrency=...): the archive is built with a
\* small cap so that a few coroutines saturate it
max_file_concurrency == 1

NumArchiveTasks == 2

ArchiveTasks == 1..NumArchiveTasks

\* The wall clock values the model passes through
Clock == <<DateTime(2018, 11, 19, 15, 20, 30), DateTime(2018, 12, 1, 0, 10, 0)>>

(***************************************************************************)
(* Reading a file: parse_file and Descriptor.from_str                      *)
(***************************************************************************)

NoResult == [status |-> "pending", raw |-> <<>>]

None == [status |-> "None", raw |-> <<>>]

Raised == [status |-> "raised", raw |-> <<>>]

Parsed(raw) == [status |-> "descriptor", raw |-> raw]

IsTypeAnnotation(tok) == \E d \in Docs : type_annotation(d) = <<tok>>

\* stem reads the first line and drops it when it is an @type annotation
StripAnnotation(content) ==
    IF Len(content) >= 2 /\ IsTypeAnnotation(content[1]) /\ content[2] = "\n"
    THEN SubSeq(content, 3, Len(content))
    ELSE content

\* What parse_file can return for the bytes read: the descriptor when the
\* bytes hold a whole document; for an empty or cut file the parser finds no
\* descriptor, which parse_file swallows (StopIteration, None) or lets
\* through (any other exception), or it builds a descriptor from the bytes
\* that are there (stem does not validate by default).
ParseOutcomes(content) ==
    LET body == StripAnnotation(content)
    IN  IF \E d \in Docs : body = d.raw
        THEN {Parsed(body)}
        ELSE {None, Raised} \cup (IF body # <<>> /\ body # content THEN {Parsed(body)} ELSE {})

(***************************************************************************)
(* DirectoryArchive.store and the getters                                  *)
(***************************************************************************)

IdleTask ==
    [op |-> "none", pc |-> "idle", doc |-> NS_ODD, hinted |-> FALSE, hint |-> NoTime,
     path |-> <<>>, raw_content |-> <<>>, result |-> NoResult, fresh |-> FALSE]

\* A coroutine that has ended: its locals are gone, what is left is how it
\* ended ("done", "failed" with an exception, "cancelled") and what it returned
Ended(pc, result) == [IdleTask EXCEPT !.pc = pc, !.result = result]

\* The getter that reads documents like d
GetterOf(d) ==
    CASE d.cls = "RelayDescriptor" -> "relay_server_descriptor"
      [] d.cls = "RelayExtraInfoDescriptor" -> "relay_extra_info_descriptor"
      [] d.cls = "Microdescriptor" -> "relay_microdescriptor"
      [] d.is_vote -> "relay_vote"
      [] OTHER -> "relay_consensus"

\* The path a getter reads, from its arguments (hint is the hint given, or
\* valid_after_now() when none was given)
GetterPath(op, digest, v3ident, flavor, hint) ==
    CASE op = "relay_server_descriptor" -> relay_server_descriptor_path(hint, digest)
      [] op = "relay_extra_info_descriptor" -> relay_extra_info_descriptor_path(hint, digest)
      [] op = "relay_microdescriptor" -> relay_microdescriptor_path(hint, digest)
      [] op = "relay_vote" -> relay_vote_path(hint, v3ident, Upper(digest))
      [] OTHER -> IF flavor = "microdesc"
                  THEN relay_microdescriptor_consensus_path(hint)
                  ELSE relay_consensus_path(hint)

\* The digest and flavor a caller passes to read d back
DigestArg(d) == IF d.is_vote THEN VoteDigest(d) ELSE d.digest

FlavorArg(d) == IF d.is_microdescriptor THEN "microdesc" ELSE "ns"

\* "async with self.max_file_concurrency_lock": the permit is taken at once
\* when one is free, otherwise the coroutine waits
EnterLock(t, rec, nextpc) ==
    IF file_permits < max_file_concurrency
    THEN /\ file_permits' = file_permits + 1
         /\ atask' = [atask EXCEPT ![t] = [rec EXCEPT !.pc = nextpc]]
    ELSE /\ file_permits' = file_permits
         /\ atask' = [atask EXCEPT ![t] = [rec EXCEPT !.pc = "acquire"]]

\* store(descriptor) up to its first await: path_for(descriptor,
\* create_dir=True), then the lock
StoreStart(t, d) ==
    /\ atask[t].pc = "idle"
    /\ LET path == path_for(d, utcnow)
           rec  == [atask[t] EXCEPT !.op = "store", !.doc = d, !.path = path]
       IN  IF path = PathError
           THEN /\ atask' = [atask EXCEPT ![t] = Ended("failed", Raised)]
                /\ UNCHANGED <<dirs, file_permits>>
           ELSE /\ dirs' = dirs \cup {DirName(path)}
                /\ EnterLock(t, rec, "open")
    /\ UNCHANGED <<utcnow, files, stored, download_vars, cache_vars, invoked, parser_vars, scraper_vars>>

\* A waiting coroutine gets a permit
Acquire(t) ==
    /\ atask[t].pc = "acquire"
    /\ file_permits < max_file_concurrency
    /\ file_permits' = file_permits + 1
    /\ atask' = [atask EXCEPT ![t].pc = IF atask[t].op = "store" THEN "open" ELSE "gopen"]
    /\ UNCHANGED <<utcnow, files, dirs, stored, download_vars, cache_vars, invoked, parser_vars, scraper_vars>>

\* aiofiles.open(path, 'wb'): the file is created, or cut to nothing
StoreOpen(t) ==
    /\ atask[t].pc = "open"
    /\ files' = [p \in DOMAIN files \cup {atask[t].path} |->
                    IF p = atask[t].path THEN <<>> ELSE files[p]]
    /\ atask' = [atask EXCEPT ![t].pc = "write"]
    /\ UNCHANGED <<utcnow, dirs, file_permits, stored, download_vars, cache_vars, invoked, parser_vars, scraper_vars>>

Prefixes(content) == {SubSeq(content, 1, n) : n \in 0..Len(content)}

\* output.write(prepare_annotated_content(descriptor)): the writer is
\* buffered; the bytes either stay in the buffer until the close or, when
\* they do not fit, go to the disk at once
StoreWrite(t) ==
    /\ atask[t].pc = "write"
    /\ \E flushed \in BOOLEAN :
          files' = IF flushed
                   THEN [p \in DOMAIN files \cup {atask[t].path} |->
                            IF p = atask[t].path
                            THEN prepare_annotated_content(atask[t].doc)
                            ELSE files[p]]
                   ELSE files
    /\ atask' = [atask EXCEPT ![t].pc = "close"]
    /\ UNCHANGED <<utcnow, dirs, file_permits, stored, download_vars, cache_vars, invoked, parser_vars, scraper_vars>>

\* The write raises (disk full, I/O error) after some of the bytes have
\* reached the disk: both context managers exit
StoreWriteFails(t) ==
    /\ atask[t].pc = "write"
    /\ \E part \in Prefixes(prepare_annotated_content(atask[t].doc)) :
          /\ part # prepare_annotated_content(atask[t].doc)
          /\ files' = [p \in DOMAIN files \cup {atask[t].path} |->
                          IF p = atask[t].path THEN part ELSE files[p]]
    /\ file_permits' = file_permits - 1
    /\ atask' = [atask EXCEPT ![t] = Ended("failed", Raised)]
    /\ UNCHANGED <<utcnow, dirs, stored, download_vars, cache_vars, invoked, parser_vars, scraper_vars>>

\* Leaving "async with aiofiles.open": the file is flushed and closed, the
\* permit is given back and store returns
StoreClose(t) ==
    /\ atask[t].pc = "close"
    /\ files' = [p \in DOMAIN files \cup {atask[t].path} |->
                    IF p = atask[t].path THEN prepare_annotated_content(atask[t].doc)
                    ELSE files[p]]
    /\ file_permits' = file_permits - 1
    /\ atask' = [atask EXCEPT ![t] = Ended("done", None)]
    /\ stored' = stored \cup {[doc |-> atask[t].doc, path |-> atask[t].path]}
    /\ UNCHANGED <<utcnow, dirs, download_vars, cache_vars, invoked, parser_vars, scraper_vars>>

\* A getter up to its first await: the hint (or valid_after_now()), the
\* path, then the lock; d stands for the arguments: the caller asks for d by
\* d's digest (authority, flavor), with d's time as the hint when hinted
GetStart(t, d, hinted) ==
    /\ atask[t].pc = "idle"
    /\ LET hint == IF hinted THEN d.time ELSE valid_after_now(utcnow)
           path == GetterPath(GetterOf(d), DigestArg(d), d.v3ident, FlavorArg(d), hint)
           rec  == [atask[t] EXCEPT !.op = GetterOf(d), !.doc = d, !.hinted = hinted,
                                    !.path = path, !.fresh = \E r \in stored : r.doc = d]
       IN  IF path = PathError
           THEN /\ atask' = [atask EXCEPT ![t] = Ended("failed", Raised)]
                /\ UNCHANGED file_permits
           ELSE EnterLock(t, rec, "gopen")
    /\ UNCHANGED <<utcnow, files, dirs, stored, download_vars, cache_vars, invoked, parser_vars, scraper_vars>>

\* glob.glob(pattern) for a pattern whose last character is "*": the files
\* whose path is the pattern's text followed by characters other than "/"
GlobMatches(pattern) ==
    LET stem == SubSeq(pattern, 1, Len(pattern) - 1)
    IN  {p \in DOMAIN files :
            /\ Len(p) >= Len(stem)
            /\ SubSeq(p, 1, Len(stem)) = stem
            /\ \A i \in (Len(stem) + 1)..Len(p) : p[i] # "/"}

\* relay_vote(v3ident, "*", valid_after) up to its first await: the path
\* with "*" for the digest is handed to aglob; d stands for the arguments:
\* the caller asks for a vote of d's authority, with d's time when hinted
VoteGlobStart(t, d, hinted) ==
    /\ atask[t].pc = "idle"
    /\ d.is_vote
    /\ LET hint == IF hinted THEN d.time ELSE valid_after_now(utcnow)
       IN  atask' = [atask EXCEPT ![t] =
                       [IdleTask EXCEPT !.op = "relay_vote", !.pc = "glob", !.doc = d,
                                        !.hinted = hinted, !.hint = hint,
                                        !.path = relay_vote_path(hint, d.v3ident,
                                                                 Upper(<<"*">>))]]
    /\ UNCHANGED <<utcnow, files, dirs, file_permits, stored, download_vars, cache_vars, invoked, parser_vars, scraper_vars>>

\* aglob returns: glob.glob lists the directory in the order the file system
\* gives the entries, so any of the matches can be element 0; without a
\* match the IndexError is caught and None is returned, with one the getter
\* goes on to the lock and parse_file
VoteGlobReturn(t) ==
    /\ atask[t].pc = "glob"
    /\ IF GlobMatches(atask[t].path) = {}
       THEN /\ atask' = [atask EXCEPT ![t] = Ended("done", None)]
            /\ UNCHANGED file_permits
       ELSE \E path \in GlobMatches(atask[t].path) :
               EnterLock(t, [atask[t] EXCEPT !.path = path], "gopen")
    /\ UNCHANGED <<utcnow, files, dirs, stored, download_vars, cache_vars, invoked, parser_vars, scraper_vars>>

\* parse_file: aiofiles.open(path, 'rb'); FileNotFoundError is swallowed and
\* the getter returns None
GetOpen(t) ==
    /\ atask[t].pc = "gopen"
    /\ IF atask[t].path \in DOMAIN files
       THEN /\ atask' = [atask EXCEPT ![t].pc = "gread"]
            /\ UNCHANGED file_permits
       ELSE /\ atask' = [atask EXCEPT ![t] = Ended("done", None)]
            /\ file_permits' = file_permits - 1
    /\ UNCHANGED <<utcnow, files, dirs, stored, download_vars, cache_vars, invoked, parser_vars, scraper_vars>>

\* raw_content = await source.read()
GetRead(t) ==
    /\ atask[t].pc = "gread"
    /\ atask[t].path \in DOMAIN files
    /\ atask' = [atask EXCEPT ![t].pc = "gparse", ![t].raw_content = files[atask[t].path]]
    /\ UNCHANGED <<utcnow, files, dirs, file_permits, stored, download_vars, cache_vars, invoked, parser_vars, scraper_vars>>

\* Descriptor.from_str in the executor, then both context managers exit
GetParse(t) ==
    /\ atask[t].pc = "gparse"
    /\ \E out \in ParseOutcomes(atask[t].raw_content) :
          atask' = [atask EXCEPT ![t] = Ended(IF out = Raised THEN "failed" ELSE "done", out)]
    /\ file_permits' = file_permits - 1
    /\ UNCHANGED <<utcnow, files, dirs, stored, download_vars, cache_vars, invoked, parser_vars, scraper_vars>>

\* Cancel as it would be if the lock were taken with acquire() and given
\* back with release() after the body, without try/finally
Cancel_NoRelease(t) ==
    /\ atask[t].pc \in {"glob", "acquire", "open", "write", "close", "gopen", "gread", "gparse"}
    /\ atask' = [atask EXCEPT ![t] = Ended("cancelled", NoResult)]
    /\ UNCHANGED <<utcnow, files, dirs, file_permits, stored, download_vars, cache_vars, invoked, parser_vars, scraper_vars>>

\* The coroutine is cancelled at the await it is suspended at.  A write
\* already handed to the executor either ran (and the close flushes it) or
\* never ran; an open handed to the executor either ran or never ran.
Cancel(t) ==
    /\ atask[t].pc \in {"glob", "acquire", "open", "write", "close", "gopen", "gread", "gparse"}
    /\ atask' = [atask EXCEPT ![t] = Ended("cancelled", NoResult)]
    /\ file_permits' = IF atask[t].pc \in {"glob", "acquire"}
                       THEN file_permits ELSE file_permits - 1
    /\ \E ran \in BOOLEAN :
          files' =
            IF atask[t].pc = "open" /\ ran
            THEN [p \in DOMAIN files \cup {atask[t].path} |->
                     IF p = atask[t].path THEN <<>> ELSE files[p]]
            ELSE IF (atask[t].pc = "write" /\ ran) \/ atask[t].pc = "close"
            THEN [p \in DOMAIN files \cup {atask[t].path} |->
                     IF p = atask[t].path THEN prepare_annotated_content(atask[t].doc)
                     ELSE files[p]]
            ELSE files
    /\ UNCHANGED <<utcnow, dirs, stored, download_vars, cache_vars, invoked, parser_vars, scraper_vars>>

\* Time passes
Tick ==
    /\ \E i \in 1..(Len(Clock) - 1) : utcnow = Clock[i] /\ utcnow' = Clock[i + 1]
    /\ UNCHANGED <<files, dirs, file_permits, atask, stored, download_vars, cache_vars, invoked, parser_vars, scraper_vars>>

\* The files and directories of the documents kept from an earlier run
KeptFiles ==
    [p \in {path_for(d, Clock[1]) : d \in KeptDocs} |->
        prepare_annotated_content(CHOOSE d \in KeptDocs : path_for(d, Clock[1]) = p)]

KeptDirs == {DirName(p) : p \in DOMAIN KeptFiles}

ArchiveInit ==
    /\ utcnow = Clock[1]
    /\ files = KeptFiles
    /\ dirs = KeptDirs
    /\ file_permits = 0
    /\ atask = [t \in ArchiveTasks |-> IdleTask]
    /\ stored = {}

ArchiveNext ==
    \/ \E t \in ArchiveTasks, d \in ArchiveDocs : StoreStart(t, d)
    \/ \E t \in ArchiveTasks, d \in ArchiveGetDocs, hinted \in BOOLEAN : GetStart(t, d, hinted)
    \/ \E t \in ArchiveTasks, hinted \in BOOLEAN : VoteGlobStart(t, VOTE_D, hinted)
    \/ \E t \in ArchiveTasks : VoteGlobReturn(t)
    \/ \E t \in ArchiveTasks : Acquire(t)
    \/ \E t \in ArchiveTasks : StoreOpen(t)
    \/ \E t \in ArchiveTasks : StoreWrite(t)
    \/ \E t \in ArchiveTasks : StoreWriteFails(t)
    \/ \E t \in ArchiveTasks : StoreClose(t)
    \/ \E t \in ArchiveTasks : GetOpen(t)
    \/ \E t \in ArchiveTasks : GetRead(t)
    \/ \E t \in ArchiveTasks : GetParse(t)
    \/ \E t \in ArchiveTasks : Cancel(t)
    \/ Tick

(***************************************************************************)
(* Properties of the archive                                               *)
(***************************************************************************)

\* The coroutines that hold a permit of max_file_concurrency_lock: those
\* between entering and leaving "async with self.max_file_concurrency_lock"
HoldsFilePermit(t) == atask[t].pc \in {"open", "write", "close", "gopen", "gread", "gparse"}

\* The coroutines that have a file of the archive open
HasFileOpen(t) == atask[t].pc \in {"write", "close", "gread", "gparse"}

ArchiveQuiet == \A t \in ArchiveTasks : atask[t].pc \in {"idle", "done", "failed", "cancelled"}

\* C6: at most max_file_concurrency archive files are open at a time, every
\* open file is covered by a permit, the permits taken are exactly those of
\* the coroutines inside the lock (so every exit path has given its permit
\* back), and when no operation is running no permit is taken.
C6_FilePermitsBounded ==
    /\ file_permits <= max_file_concurrency
    /\ Cardinality({t \in ArchiveTasks : HasFileOpen(t)}) <= file_permits
    /\ file_permits = Cardinality({t \in ArchiveTasks : HoldsFilePermit(t)})
    /\ ArchiveQuiet => file_permits = 0

\* The cap binds: every permit is taken and a coroutine waits for one
C6_Witness ==
    /\ file_permits = max_file_concurrency
    /\ \E t \in ArchiveTasks : atask[t].pc = "acquire"
    /\ \E t \in ArchiveTasks : HasFileOpen(t)

IsCompleteFile(content) == \E d \in Docs : content = prepare_annotated_content(d)

\* C7: every file of the archive holds the complete annotated content of a
\* document, and the bytes a getter has read are complete, in every state
\* (whatever the interleaving of store with getters, cancellation or failure).
C7_FilesCompleteOrAbsent ==
    /\ \A p \in DOMAIN files : IsCompleteFile(files[p])
    /\ \A t \in ArchiveTasks : atask[t].pc = "gparse" => IsCompleteFile(atask[t].raw_content)

\* C8: a getter called with d's digest and d's own time as the hint, after
\* store(d) has returned, reads the path store wrote and returns a document
\* with d's raw bytes.
C8_RoundTrip ==
    [][\A t \in ArchiveTasks :
          (/\ atask[t].pc \in {"gopen", "gparse"}
           /\ atask[t].hinted
           /\ atask[t].fresh
           /\ atask'[t].pc \in {"done", "failed"})
          => /\ atask'[t].result = Parsed(atask[t].doc.raw)
             /\ \A r \in stored : r.doc = atask[t].doc => r.path = atask[t].path
      ]_vars

\* C13: the path of a document is the same whenever path_for is called: at
\* any wall-clock time path_for gives, for every document, the path it gave
\* when the archive was created, and two stores of the same document have
\* written the same path
C13_PathDeterminism ==
    /\ \A d \in ArchiveDocs : path_for(d, utcnow) = path_for(d, Clock[1])
    /\ \A r1, r2 \in stored : r1.doc = r2.doc => r1.path = r2.path

\* C14: path_for raises for a network status that is neither a consensus
\* nor a vote, at any time; a store that fails before its first await (the
\* failure of path_for) creates no directory, writes no file and takes no
\* permit, and no store of such a document ever completes
C14_UnknownKindRejected ==
    /\ [](path_for(NS_ODD, utcnow) = PathError)
    /\ [](\A r \in stored : r.doc # NS_ODD)
    /\ [][\A t \in ArchiveTasks :
             (atask[t].pc = "idle" /\ atask'[t].pc = "failed")
             => /\ atask'[t].result = Raised
                /\ UNCHANGED <<files, dirs, file_permits, stored>>
         ]_vars

\* A store has failed while the archive has the directories and files it
\* started with and no other: the store of the document of no supported kind
C14_Witness ==
    /\ \E t \in ArchiveTasks : atask[t].pc = "failed" /\ atask[t].result = Raised
    /\ dirs = KeptDirs
    /\ files = KeptFiles

\* C18: a getter whose file is absent, and a getter that has read a file
\* that does not hold a whole document (a truncated file, or bytes that do
\* not parse as the kind asked for), returns None and does not raise
C18_GettersReturnNone ==
    [][\A t \in ArchiveTasks :
          /\ (/\ atask[t].pc = "gopen"
              /\ atask[t].path \notin DOMAIN files
              /\ atask'[t].pc \in {"done", "failed"})
             => atask'[t] = Ended("done", None)
          /\ (/\ atask[t].pc = "gparse"
              /\ ~IsCompleteFile(atask[t].raw_content)
              /\ atask'[t].pc \in {"done", "failed"})
             => atask'[t] = Ended("done", None)
      ]_vars

(***************************************************************************)
(* The downloader (bushel/downloader.py)                                   *)
(***************************************************************************)

RECURSIVE Join(_, _)
\* sep.join(items)
Join(items, sep) ==
    IF items = <<>> THEN <<>>
    ELSE IF Len(items) = 1 THEN items[1]
    ELSE items[1] \o <<sep>> \o Join(Tail(items), sep)

relay_server_descriptors_query_path(digests) == <<"/tor/server/d/">> \o Join(digests, "+")

relay_extra_info_descriptors_query_path(digests) == <<"/tor/extra/d/">> \o Join(digests, "+")

relay_microdescriptors_query_path(microdescriptor_hashes) ==
    <<"/tor/micro/d/">> \o Join(microdescriptor_hashes, "-")

\* The directory authorities the model knows (the first three of the list)
DIRECTORY_AUTHORITIES ==
    <<[nickname |-> "moria1", v3ident |-> <<"D", "5", "8", "6">>,
       dir_port |-> "128.31.0.39:9131"],
      [nickname |-> "tor26", v3ident |-> <<"1", "4", "C", "1">>,
       dir_port |-> "86.59.21.38:80"],
      [nickname |-> "dizum", v3ident |-> <<"E", "8", "A", "9">>,
       dir_port |-> "194.109.206.212:80"]>>

LOCAL_DIRECTORY_CACHE == "127.0.0.1:9030"

\* DirectoryDownloader.directory_authorities()
directory_authorities ==
    [i \in 1..Len(DIRECTORY_AUTHORITIES) |-> DIRECTORY_AUTHORITIES[i].dir_port]

\* DirectoryDownloader(max_concurrency=...): the downloader is built with a
\* small cap so that a few coroutines saturate it
max_concurrency == 1

\* stem.descriptor.remote.MAX_FINGERPRINTS and MAX_MICRODESCRIPTOR_HASHES,
\* scaled down: the most digests one request asks for
MAX_FINGERPRINTS == 2

MAX_MICRODESCRIPTOR_HASHES == 2

\* The digests descriptors are asked for by (what descriptor.digest() gives)
D1 == <<"A", "9", "4">>

D2 == <<"B", "3", "8">>

D3 == <<"C", "0", "7">>

\* The digest of a descriptor that nobody asks for
DX == <<"F", "F", "1">>

\* The lists of digests the downloader is called with
DigestLists == {<<>>, <<D1>>, <<D1, D2>>, <<D1, D2, D3>>}

\* No relay_*_descriptors call has been made
NoCall == [kind |-> "none", digests |-> <<>>]

\* chunks that keeps whole batches only: a last, shorter batch is dropped
chunks_WholeOnly(l, n) ==
    [k \in 1..(Len(l) \div n) |-> SubSeq(l, (k - 1) * n + 1, k * n)]

\* chunks = lambda l, n: [l[i:i + n] for i in range(0, len(l), n)]
chunks(l, n) ==
    [k \in 1..((Len(l) + n - 1) \div n) |->
        SubSeq(l, (k - 1) * n + 1, IF k * n < Len(l) THEN k * n ELSE Len(l))]

\* What one directory server can answer to a request for the digests q: the
\* descriptors (named by their digests) it sends back: nothing (an error, a
\* timeout or a 404 gives the empty answer, suppress=True), the first one
\* only, all of them, or a descriptor that was not asked for
Answers(q) == {<<>>, q, <<DX>>} \cup (IF q # <<>> THEN {<<q[1]>>} ELSE {})

\* The coroutines gather() runs for the batches of one call, in batch order
BatchTasks == <<"b1", "b2">>

BatchTaskSet == {BatchTasks[i] : i \in 1..Len(BatchTasks)}

StatusTasks == {"s1"}

DownloadTasks == BatchTaskSet \cup StatusTasks

\* random.shuffle(list): every order of the list
Shuffles(list) ==
    {[i \in 1..Len(list) |-> list[p[i]]] :
        p \in {q \in [1..Len(list) -> 1..Len(list)] :
                  \A i, j \in 1..Len(list) : i # j => q[i] # q[j]}}

RECURSIVE ListRemove(_, _)
\* list.remove(x): the list without the first occurrence of x (x is in it)
ListRemove(list, x) ==
    IF list = <<>> THEN <<>>
    ELSE IF list[1] = x THEN Tail(list)
    ELSE <<list[1]>> \o ListRemove(Tail(list), x)

InList(list, x) == \E i \in 1..Len(list) : list[i] = x

RECURSIVE RemoveReceived(_, _)
\* The body of "for descriptor in result": each digest received is removed
\* from the outstanding list, a digest that is not in it is let through
RemoveReceived(digests, result) ==
    IF result = <<>> THEN digests
    ELSE RemoveReceived(IF InList(digests, result[1])
                        THEN ListRemove(digests, result[1]) ELSE digests,
                        Tail(result))

\* resource is the path a consensus request asks for (kept for the requests
\* of _consensus_attempt only); queried is history: the endpoints of the
\* requests a batch has made before the one it is at
IdleDownload ==
    [kind |-> "none", pc |-> "idle", asked |-> <<>>, endpoints |-> <<>>, endpoint |-> "none",
     digests |-> <<>>, descriptors |-> <<>>, attempts |-> 0, returned |-> "pending",
     resource |-> <<>>, queried |-> {}]

\* A downloader that raises to its caller when it gives up with digests
\* still outstanding
Returned_RaisesWhenMissing(rec, value) ==
    [IdleDownload EXCEPT !.kind = rec.kind,
                         !.pc = IF rec.digests # <<>> THEN "failed" ELSE "done",
                         !.asked = rec.asked,
                         !.descriptors = IF rec.digests # <<>> THEN <<>> ELSE rec.descriptors,
                         !.attempts = rec.attempts,
                         !.returned = IF rec.digests # <<>> THEN "raised" ELSE value]

\* The coroutine rec has returned: its locals are gone; what it was called
\* with, what it returns (the list descriptors, a consensus, a vote or None)
\* and the number of requests it made are kept
Returned(rec, value) ==
    [IdleDownload EXCEPT !.kind = rec.kind, !.pc = "done", !.asked = rec.asked,
                         !.descriptors = rec.descriptors, !.attempts = rec.attempts,
                         !.returned = value]

\* The endpoints a kind of batch is tried on
EndpointsFor(kind) == IF kind = "extra_info" THEN extra_info_endpoints ELSE endpoints

\* MAX_FINGERPRINTS or MAX_MICRODESCRIPTOR_HASHES
BatchSize(kind) ==
    IF kind = "microdescriptor" THEN MAX_MICRODESCRIPTOR_HASHES ELSE MAX_FINGERPRINTS

\* The loop head of a downloader that goes on while endpoints are left,
\* whether or not digests are outstanding
LoopHead_WhileEndpoints(rec, permits, contended) ==
    IF rec.endpoints # <<>>
    THEN LET popped == [rec EXCEPT !.endpoint = rec.endpoints[Len(rec.endpoints)],
                                   !.endpoints = SubSeq(rec.endpoints, 1, Len(rec.endpoints) - 1),
                                   !.queried = rec.queried \cup ({rec.endpoint} \ {"none"})]
         IN  (IF permits < max_concurrency
              THEN {[task |-> [popped EXCEPT !.pc = "request",
                                             !.attempts = rec.attempts + 1],
                     permits |-> permits + 1]}
              ELSE {})
             \cup
             (IF permits >= max_concurrency \/ contended
              THEN {[task |-> [popped EXCEPT !.pc = "acquire"], permits |-> permits]}
              ELSE {})
    ELSE {[task |-> Returned(rec, "list"), permits |-> permits]}

\* _multiple_descriptors from the head of "while endpoints and digests" to
\* the next await: leave the loop and return, or pop the next endpoint and
\* enter the lock. The request is issued as soon as the permit is held; the
\* permit is had at once when one is free, except that with coroutines
\* already waiting for one (contended) the semaphore of some Python versions
\* makes the newcomer wait behind them and that of others lets it pass.
\* Gives the outcomes: the coroutine's record and the permits taken.
LoopHead(rec, permits, contended) ==
    IF rec.endpoints # <<>> /\ rec.digests # <<>>
    THEN LET popped == [rec EXCEPT !.endpoint = rec.endpoints[Len(rec.endpoints)],
                                   !.endpoints = SubSeq(rec.endpoints, 1, Len(rec.endpoints) - 1),
                                   !.queried = rec.queried \cup ({rec.endpoint} \ {"none"})]
         IN  (IF permits < max_concurrency
              THEN {[task |-> [popped EXCEPT !.pc = "request",
                                             !.attempts = rec.attempts + 1],
                     permits |-> permits + 1]}
              ELSE {})
             \cup
             (IF permits >= max_concurrency \/ contended
              THEN {[task |-> [popped EXCEPT !.pc = "acquire"], permits |-> permits]}
              ELSE {})
    ELSE {[task |-> Returned(rec, "list"), permits |-> permits]}

\* Some coroutine waits for a permit of max_concurrency_lock
Contended == \E u \in BatchTaskSet : dtask[u].pc = "acquire"

\* relay_server_descriptors / relay_extra_info_descriptors /
\* relay_microdescriptors(digests): the digests are cut into batches and
\* gather() starts one _multiple_descriptors per batch; each shuffles its
\* copy of the endpoints and runs to its first await, in batch order
DescriptorsCall(kind, digests) ==
    /\ \A t \in BatchTaskSet : dtask[t].pc = "idle"
    /\ requested' = [kind |-> kind, digests |-> digests]
    /\ LET batches == chunks(digests, BatchSize(kind))
           Fresh(k, shuffled) ==
               [IdleDownload EXCEPT !.kind = kind, !.asked = batches[k],
                                    !.endpoints = shuffled, !.digests = batches[k]]
       IN  /\ Len(batches) <= Len(BatchTasks)
           /\ IF Len(batches) = 0
              THEN UNCHANGED <<dtask, http_permits>>
              ELSE \E s1 \in Shuffles(EndpointsFor(kind)), s2 \in Shuffles(EndpointsFor(kind)) :
                   \E first \in LoopHead(Fresh(1, s1), http_permits, FALSE) :
                      IF Len(batches) = 1
                      THEN /\ s2 = s1
                           /\ dtask' = [dtask EXCEPT ![BatchTasks[1]] = first.task]
                           /\ http_permits' = first.permits
                      ELSE \E second \in LoopHead(Fresh(2, s2), first.permits,
                                                  first.task.pc = "acquire") :
                              /\ dtask' = [dtask EXCEPT ![BatchTasks[1]] = first.task,
                                                        ![BatchTasks[2]] = second.task]
                              /\ http_permits' = second.permits
    /\ UNCHANGED <<endpoints, extra_info_endpoints, current_consensus, routers, descriptor_cache, mode, archive_vars, cache_vars, invoked, parser_vars, scraper_vars>>

\* A waiting batch gets a permit and issues its request
BatchAcquire(t) ==
    /\ dtask[t].pc = "acquire"
    /\ http_permits < max_concurrency
    /\ http_permits' = http_permits + 1
    /\ dtask' = [dtask EXCEPT ![t].pc = "request", ![t].attempts = dtask[t].attempts + 1]
    /\ UNCHANGED <<endpoints, extra_info_endpoints, current_consensus, routers, descriptor_cache, mode, requested, archive_vars, cache_vars, invoked, parser_vars, scraper_vars>>

\* A downloader that returns as soon as an answer holds a descriptor
BatchResult_StopsOnAnyResult(t, result) ==
    /\ dtask[t].pc = "request"
    /\ dtask[t].kind \in {"server", "extra_info", "microdescriptor"}
    /\ result \in Answers(dtask[t].digests)
    /\ LET rec == [dtask[t] EXCEPT !.digests = RemoveReceived(dtask[t].digests, result),
                                   !.descriptors = dtask[t].descriptors \o result]
       IN  \E next \in (IF result # <<>>
                        THEN {[task |-> Returned(rec, "list"), permits |-> http_permits - 1]}
                        ELSE LoopHead(rec, http_permits - 1, Contended)) :
              /\ dtask' = [dtask EXCEPT ![t] = next.task]
              /\ http_permits' = next.permits
    /\ UNCHANGED <<endpoints, extra_info_endpoints, current_consensus, routers, descriptor_cache, mode, requested, archive_vars, cache_vars, invoked, parser_vars, scraper_vars>>

\* query.run(suppress=True) returns: the lock is left, the descriptors
\* received are taken off the outstanding digests and appended, and the
\* loop goes on
BatchResult(t, result) ==
    /\ dtask[t].pc = "request"
    /\ dtask[t].kind \in {"server", "extra_info", "microdescriptor"}
    /\ result \in Answers(dtask[t].digests)
    /\ LET rec == [dtask[t] EXCEPT !.digests = RemoveReceived(dtask[t].digests, result),
                                   !.descriptors = dtask[t].descriptors \o result]
       IN  \E next \in LoopHead(rec, http_permits - 1, Contended) :
              /\ dtask' = [dtask EXCEPT ![t] = next.task]
              /\ http_permits' = next.permits
    /\ UNCHANGED <<endpoints, extra_info_endpoints, current_consensus, routers, descriptor_cache, mode, requested, archive_vars, cache_vars, invoked, parser_vars, scraper_vars>>

\* f"/tor/status-vote/current/consensus-{flavor}" in _consensus_attempt; the
\* literal is cut in two tokens before its "-"
consensus_resource(flavor) == <<"/tor/status-vote/current/consensus", "-", flavor>>

\* relay_consensus(flavor): the endpoints are shuffled and the first is asked
\* (_consensus_attempt issues its request at once)
ConsensusStart(t, flavor) ==
    /\ dtask[t].pc = "idle"
    /\ \E shuffled \in Shuffles(endpoints) :
          dtask' = [dtask EXCEPT ![t] =
                      IF shuffled = <<>>
                      THEN Returned([IdleDownload EXCEPT !.kind = flavor], "None")
                      ELSE [IdleDownload EXCEPT !.kind = flavor, !.pc = "request",
                                                !.resource = consensus_resource(flavor),
                                                !.endpoint = shuffled[1],
                                                !.endpoints = Tail(shuffled),
                                                !.attempts = 1]]
    /\ UNCHANGED <<endpoints, extra_info_endpoints, current_consensus, routers, descriptor_cache, mode, http_permits, requested, archive_vars, cache_vars, invoked, parser_vars, scraper_vars>>

\* _consensus_attempt returns: a consensus becomes current_consensus and is
\* returned; otherwise the next endpoint is asked, or None is returned
ConsensusResult(t, found, listed) ==
    /\ dtask[t].pc = "request"
    /\ dtask[t].kind \in {"ns", "microdesc"}
    /\ IF found
       THEN /\ current_consensus' = dtask[t].kind
            /\ routers' = listed
            /\ dtask' = [dtask EXCEPT ![t] = Returned(dtask[t], "consensus")]
       ELSE /\ current_consensus' = current_consensus
            /\ routers' = routers
            /\ dtask' = [dtask EXCEPT ![t] =
                           IF dtask[t].endpoints = <<>>
                           THEN Returned(dtask[t], "None")
                           ELSE [dtask[t] EXCEPT !.resource = consensus_resource(dtask[t].kind),
                                                 !.endpoint = dtask[t].endpoints[1],
                                                 !.endpoints = Tail(dtask[t].endpoints),
                                                 !.attempts = dtask[t].attempts + 1]]
    /\ UNCHANGED <<endpoints, extra_info_endpoints, descriptor_cache, mode, http_permits, requested, archive_vars, cache_vars, invoked, parser_vars, scraper_vars>>

\* vote(digest=..., endpoint=...): the query is started at once, on the
\* endpoint given or on one of the authorities
VoteStart(t, endpoint) ==
    /\ dtask[t].pc = "idle"
    /\ endpoint \in {directory_authorities[i] : i \in 1..Len(directory_authorities)}
    /\ dtask' = [dtask EXCEPT ![t] = [IdleDownload EXCEPT !.kind = "vote", !.pc = "request",
                                                          !.endpoint = endpoint,
                                                          !.attempts = 1]]
    /\ UNCHANGED <<endpoints, extra_info_endpoints, current_consensus, routers, descriptor_cache, mode, http_permits, requested, archive_vars, cache_vars, invoked, parser_vars, scraper_vars>>

\* The vote query is done: the first vote of the answer, or None
VoteResult(t, found) ==
    /\ dtask[t].pc = "request"
    /\ dtask[t].kind = "vote"
    /\ dtask' = [dtask EXCEPT ![t] = Returned(dtask[t], IF found THEN "vote" ELSE "None")]
    /\ UNCHANGED <<endpoints, extra_info_endpoints, current_consensus, routers, descriptor_cache, mode, http_permits, requested, archive_vars, cache_vars, invoked, parser_vars, scraper_vars>>

(***************************************************************************)
(* The modes of the downloader                                             *)
(***************************************************************************)

\* DirectoryCacheMode = UppercaseEnum('CLIENT', 'DIRECTORY_CACHE', 'TESTING');
\* a value is modelled with its Python type, so that 1 and "unknown" can be
\* passed where a mode is expected
CLIENT == [type |-> "str", value |-> "CLIENT"]

DIRECTORY_CACHE == [type |-> "str", value |-> "DIRECTORY_CACHE"]

TESTING == [type |-> "str", value |-> "TESTING"]

DirectoryCacheMode == {CLIENT, DIRECTORY_CACHE, TESTING}

\* What set_mode is called with: the three modes, an integer and a string
\* that is no mode
ModeArguments ==
    DirectoryCacheMode \cup {[type |-> "int", value |-> "1"], [type |-> "str", value |-> "unknown"]}

\* stem.Flag.V2DIR
V2DIR == "V2Dir"

\* The routers a consensus lists: one that is a directory cache, one with the
\* V2Dir flag and no directory port (dir_port None, here 0), one with a
\* directory port and no V2Dir flag, and a second directory cache
R_CACHE == [address |-> "10.0.0.1", dir_port |-> 80, flags |-> {"Running", V2DIR}, digest |-> D1]

R_NOPORT == [address |-> "10.0.0.2", dir_port |-> 0, flags |-> {"Running", V2DIR}, digest |-> D2]

R_NOFLAG == [address |-> "10.0.0.3", dir_port |-> 9030, flags |-> {"Running"}, digest |-> D1]

R_CACHE2 == [address |-> "10.0.0.4", dir_port |-> 443, flags |-> {V2DIR}, digest |-> D2]

\* The router of a consensus that is the directory authority moria1
R_AUTHORITY ==
    [address |-> "128.31.0.39", dir_port |-> 9131, flags |-> {"Authority", "Running", V2DIR},
     digest |-> D1]

\* The router lists of the consensuses a directory server may answer with
RouterLists == {<<>>, <<R_CACHE, R_NOPORT>>, <<R_NOFLAG, R_CACHE2>>, <<R_CACHE, R_CACHE2>>}

\* stem.DirPort(address, port), written as the authorities' ports are
DirPort(address, port) ==
    CASE address = "10.0.0.1" /\ port = 80 -> "10.0.0.1:80"
      [] address = "10.0.0.3" /\ port = 9030 -> "10.0.0.3:9030"
      [] address = "10.0.0.4" /\ port = 443 -> "10.0.0.4:443"
      [] address = "128.31.0.39" /\ port = 9131 -> "128.31.0.39:9131"

\* descriptor_cache is None
NoDescriptorCache == [callable |-> FALSE, answers |-> <<>>]

\* What a descriptor cache answers for a digest: None, or a server
\* descriptor that is or is not an extra-info cache
NotCached == [found |-> FALSE, extra_info_cache |-> FALSE]

CachedDescriptor(extra_info_cache) == [found |-> TRUE, extra_info_cache |-> extra_info_cache]

\* The callables descriptor_cache is set to, each given by its answers
DescriptorCaches ==
    {[callable |-> TRUE, answers |-> answers] :
        answers \in {[digest \in {D1, D2} |-> NotCached],
                     [digest \in {D1, D2} |-> CachedDescriptor(TRUE)],
                     [digest \in {D1, D2} |->
                        IF digest = D1 THEN CachedDescriptor(TRUE) ELSE CachedDescriptor(FALSE)],
                     [digest \in {D1, D2} |->
                        IF digest = D1 THEN NotCached ELSE CachedDescriptor(TRUE)]}}

RECURSIVE directory_caches_FlagUncheckedForExtraInfo(_, _, _, _)
\* directory_caches that, asked for extra-info caches, takes the routers
\* with a directory port whether or not they have the V2Dir flag
directory_caches_FlagUncheckedForExtraInfo(consensus, listed, cache, extra_info) ==
    IF consensus = "None" THEN directory_authorities
    ELSE IF listed = <<>> THEN directory_authorities
    ELSE LET router == listed[Len(listed)]
             before == directory_caches_FlagUncheckedForExtraInfo(
                           consensus, SubSeq(listed, 1, Len(listed) - 1), cache, extra_info)
             skipped ==
                 /\ extra_info
                 /\ cache.callable
                 /\ LET server_descriptor == cache.answers[router.digest]
                    IN  (~server_descriptor.found) \/ (~server_descriptor.extra_info_cache)
         IN  IF skipped THEN before
             ELSE IF (extra_info \/ V2DIR \in router.flags) /\ router.dir_port # 0
             THEN Append(before, DirPort(router.address, router.dir_port))
             ELSE before

RECURSIVE directory_caches(_, _, _, _)
\* DirectoryDownloader.directory_caches(extra_info): the authorities when no
\* consensus is known; else the authorities followed by the directory port
\* of every router with the V2Dir flag and a directory port, in the order
\* of the consensus, leaving out for extra_info, when a descriptor cache is
\* set, the routers whose server descriptor is not cached or is no
\* extra-info cache
directory_caches(consensus, listed, cache, extra_info) ==
    IF consensus = "None" THEN directory_authorities
    ELSE IF listed = <<>> THEN directory_authorities
    ELSE LET router == listed[Len(listed)]
             before == directory_caches(consensus, SubSeq(listed, 1, Len(listed) - 1),
                                        cache, extra_info)
             skipped ==
                 /\ extra_info
                 /\ cache.callable
                 /\ LET server_descriptor == cache.answers[router.digest]
                    IN  (~server_descriptor.found) \/ (~server_descriptor.extra_info_cache)
         IN  IF skipped THEN before
             ELSE IF V2DIR \in router.flags /\ router.dir_port # 0
             THEN Append(before, DirPort(router.address, router.dir_port))
             ELSE before

\* DirectoryDownloader.set_mode(directory_cache_mode): a value that is none
\* of the three modes falls through the elif chain and the call returns
\* with nothing assigned
set_mode(directory_cache_mode) ==
    /\ IF directory_cache_mode = DIRECTORY_CACHE
       THEN /\ endpoints' = directory_authorities
            /\ extra_info_endpoints' = directory_authorities
       ELSE IF directory_cache_mode = CLIENT
       THEN /\ endpoints' = directory_caches(current_consensus, routers, descriptor_cache, FALSE)
            /\ extra_info_endpoints' =
                   directory_caches(current_consensus, routers, descriptor_cache, TRUE)
       ELSE IF directory_cache_mode = TESTING
       THEN /\ endpoints' = <<LOCAL_DIRECTORY_CACHE>>
            /\ extra_info_endpoints' = extra_info_endpoints
       ELSE /\ endpoints' = endpoints
            /\ extra_info_endpoints' = extra_info_endpoints
    /\ mode' = [argument |-> directory_cache_mode, raised |-> FALSE]
    /\ UNCHANGED <<current_consensus, routers, descriptor_cache, http_permits, dtask, requested,
                   archive_vars, cache_vars, invoked, parser_vars, scraper_vars>>

\* downloader.descriptor_cache = ...: a callable is put in place of None or
\* of the one before (DirectoryCache puts its _cached_descriptor there)
SetDescriptorCache(cache) ==
    /\ cache \in DescriptorCaches
    /\ descriptor_cache # cache
    /\ descriptor_cache' = cache
    /\ UNCHANGED <<endpoints, extra_info_endpoints, current_consensus, routers, mode,
                   http_permits, dtask, requested, archive_vars, cache_vars, invoked, parser_vars, scraper_vars>>

DownloadInit ==
    /\ endpoints = directory_authorities
    /\ extra_info_endpoints = directory_authorities
    /\ current_consensus = "None"
    /\ routers = <<>>
    /\ descriptor_cache = NoDescriptorCache
    /\ mode = [argument |-> DIRECTORY_CACHE, raised |-> FALSE]
    /\ http_permits = 0
    /\ dtask = [t \in DownloadTasks |-> IdleDownload]
    /\ requested = NoCall

DownloadNext ==
    \/ \E kind \in {"server", "extra_info", "microdescriptor"}, digests \in DigestLists :
          DescriptorsCall(kind, digests)
    \/ \E t \in BatchTaskSet : BatchAcquire(t)
    \/ \E t \in BatchTaskSet : \E result \in Answers(dtask[t].digests) :
          BatchResult(t, result)
    \/ \E t \in StatusTasks, flavor \in {"ns", "microdesc"} : ConsensusStart(t, flavor)
    \/ \E t \in StatusTasks, found \in BOOLEAN : ConsensusResult(t, found, <<>>)
    \/ \E t \in StatusTasks, i \in 1..Len(directory_authorities) :
          VoteStart(t, directory_authorities[i])
    \/ \E t \in StatusTasks, found \in BOOLEAN : VoteResult(t, found)

\* The downloader driven through its modes: consensuses with routers arrive,
\* a descriptor cache is set and the mode is changed
ModesNext ==
    \/ \E directory_cache_mode \in ModeArguments : set_mode(directory_cache_mode)
    \/ \E cache \in DescriptorCaches : SetDescriptorCache(cache)
    \/ \E t \in StatusTasks, flavor \in {"ns", "microdesc"} : ConsensusStart(t, flavor)
    \/ \E t \in StatusTasks, found \in BOOLEAN, listed \in RouterLists :
          ConsensusResult(t, found, listed)

\* The downloader as a client: a consensus that lists an authority among its
\* routers arrives, the mode is set, and server descriptors are fetched
ClientNext ==
    \/ \E t \in StatusTasks : ConsensusStart(t, "ns")
    \/ \E t \in StatusTasks, found \in BOOLEAN : ConsensusResult(t, found, <<R_AUTHORITY>>)
    \/ \E directory_cache_mode \in {CLIENT, DIRECTORY_CACHE} : set_mode(directory_cache_mode)
    \/ \E digests \in {<<D1, D2>>, <<D1, D2, D3>>} : DescriptorsCall("server", digests)
    \/ \E t \in BatchTaskSet : BatchAcquire(t)
    \/ \E t \in BatchTaskSet : \E result \in Answers(dtask[t].digests) :
          BatchResult(t, result)

(***************************************************************************)
(* Properties of the downloader                                            *)
(***************************************************************************)

\* The HTTP requests the downloader has outstanding
OutstandingRequests == {t \in DownloadTasks : dtask[t].pc = "request"}

\* C5: at any time the downloader has at most max_concurrency HTTP requests
\* outstanding, batch, consensus and vote requests counted together, and
\* each of them holds a permit of max_concurrency_lock
C5_HttpRequestsBounded ==
    /\ Cardinality(OutstandingRequests) <= max_concurrency
    /\ Cardinality(OutstandingRequests) = http_permits

\* The digests of a record's batch that no descriptor has been received for
Missing(rec) ==
    {rec.asked[i] : i \in 1..Len(rec.asked)} \ {rec.descriptors[i] : i \in 1..Len(rec.descriptors)}

\* The batch coroutine t is given the answer to its request in this step
Answered(t) == dtask[t].pc = "request" /\ dtask'[t] # dtask[t]

\* C9: when the first endpoint of three returns nothing and the second
\* returns the one descriptor asked for, the batch returns a list with that
\* descriptor and the third endpoint is never queried: the call ends having
\* made two requests
C9_Failover ==
    [][\A t \in BatchTaskSet :
          (/\ Answered(t)
           /\ Len(dtask[t].asked) = 1
           /\ dtask[t].attempts = 2
           /\ Len(dtask[t].endpoints) = 1
           /\ dtask[t].descriptors = <<>>
           /\ dtask'[t].descriptors = dtask[t].asked)
          => /\ dtask'[t].pc = "done"
             /\ dtask'[t].returned = "list"
             /\ InList(dtask'[t].descriptors, dtask[t].asked[1])
             /\ dtask'[t].attempts = 2
      ]_vars

\* A batch for one digest has returned its descriptor after two requests,
\* of which the first brought nothing
C9_Witness ==
    \E t \in BatchTaskSet :
        /\ dtask[t].pc = "done"
        /\ dtask[t].returned = "list"
        /\ dtask[t].asked = <<D1>>
        /\ dtask[t].descriptors = <<D1>>
        /\ dtask[t].attempts = 2

StartedBatches == SelectSeq(BatchTasks, LAMBDA t : dtask[t].pc # "idle")

RECURSIVE AskedInOrder(_)
\* The digests of the batches of the given coroutines, one batch after the other
AskedInOrder(tasks) ==
    IF tasks = <<>> THEN <<>> ELSE dtask[tasks[1]].asked \o AskedInOrder(Tail(tasks))

\* ceil(a / b)
CeilDiv(a, b) == (a + b - 1) \div b

\* C12: a call with N digests runs ceil(N / MAX) batch coroutines (MAX being
\* MAX_FINGERPRINTS, or MAX_MICRODESCRIPTOR_HASHES for microdescriptors), none
\* for N = 0; every batch has at least one and at most MAX digests, and the
\* batches put one after the other are the input list, so each input digest
\* is in exactly one batch and the order is kept; a batch whose first request
\* is answered in full returns having made that one request, so when that
\* holds of every batch ceil(N / MAX) requests are made
C12_Batching ==
    /\ [](LET size == IF requested.kind = "microdescriptor"
                      THEN MAX_MICRODESCRIPTOR_HASHES ELSE MAX_FINGERPRINTS
              n == CeilDiv(Len(requested.digests), size)
          IN  /\ Len(StartedBatches) = n
              /\ StartedBatches = SubSeq(BatchTasks, 1, n)
              /\ AskedInOrder(StartedBatches) = requested.digests
              /\ \A t \in BatchTaskSet :
                    dtask[t].pc # "idle"
                    => /\ Len(dtask[t].asked) \in 1..size
                       /\ dtask[t].kind = requested.kind)
    /\ [][\A t \in BatchTaskSet :
             (/\ Answered(t)
              /\ dtask[t].attempts = 1
              /\ dtask[t].descriptors = <<>>
              /\ dtask'[t].descriptors = dtask[t].asked)
             => /\ dtask'[t].pc = "done"
                /\ dtask'[t].attempts = 1
         ]_vars

\* A call with three digests has run two batches, of two digests and of one;
\* each was answered in full by its first endpoint and made one request
C12_Witness ==
    /\ requested.digests = <<D1, D2, D3>>
    /\ dtask[BatchTasks[1]].asked = <<D1, D2>>
    /\ dtask[BatchTasks[2]].asked = <<D3>>
    /\ \A t \in BatchTaskSet :
          /\ dtask[t].pc = "done"
          /\ dtask[t].descriptors = dtask[t].asked
          /\ dtask[t].attempts = 1

(***************************************************************************)
(* The cache (bushel/cache.py)                                             *)
(***************************************************************************)

SERVER_DESCRIPTOR == 10

EXTRA_INFO_DESCRIPTOR == 20

CacheKinds == {SERVER_DESCRIPTOR, EXTRA_INFO_DESCRIPTOR}

Callers == {"c1", "c2"}

\* The number of calls of a behaviour
MaxCalls == 3

\* The lists of digests the cache is called with
CallLists == {<<D1>>, <<D2>>, <<D1, D2>>}

\* The descriptor of a kind that has the digest: what the directory servers
\* send for it, and what a file that holds it parses to
CacheDoc(kind, digest) ==
    CHOOSE d \in Docs :
        /\ d.cls = (IF kind = SERVER_DESCRIPTOR
                    THEN "RelayDescriptor" ELSE "RelayExtraInfoDescriptor")
        /\ d.digest = digest

DocOfRaw(raw) == CHOOSE d \in Docs : d.raw = raw

IdleCall ==
    [kind |-> 0, pc |-> "idle", arg |-> <<>>, digests |-> <<>>, digest |-> <<>>,
     descriptors |-> <<>>, hint |-> NoTime, downloaded |-> <<>>, todo |-> <<>>, after |-> {}]

\* A call that has ended: it returned the list or raised; what it was
\* called with is kept
CallEnded(rec, pc, result) ==
    [IdleCall EXCEPT !.kind = rec.kind, !.pc = pc, !.arg = rec.arg, !.after = rec.after,
                     !.descriptors = result]

\* DirectoryCache._cached_descriptor(doctype, digest) is memo[digest] when
\* the digest is a key of memo = self.descriptors[doctype], else None

RECURSIVE MemoryScan(_, _, _, _, _)
\* "for digest in digests" over the memory map, from list index i: a list
\* iterator reads digests[i] while i is within the list as it is then, so a
\* removal makes it pass over the element that moves into the place read
\* last. Gives the locals after the loop, or that list.remove raised.
MemoryScan(memo, i, digests, found, digest) ==
    IF i > Len(digests)
    THEN [raised |-> FALSE, digests |-> digests, descriptors |-> found, digest |-> digest]
    ELSE IF digests[i] \in DOMAIN memo
         THEN IF InList(digests, memo[digests[i]].digest)
              THEN MemoryScan(memo, i + 1, ListRemove(digests, memo[digests[i]].digest),
                              found \o <<memo[digests[i]]>>, digests[i])
              ELSE [raised |-> TRUE, digests |-> digests, descriptors |-> found,
                    digest |-> digests[i]]
         ELSE MemoryScan(memo, i + 1, digests, found, digests[i])

RECURSIVE Memoized(_, _, _)
\* "for descriptor in descriptors: self.descriptors[KIND][digest] =
\* descriptor", digest being what the first loop left in it
Memoized(memo, digest, list) ==
    IF list = <<>> THEN memo
    ELSE Memoized([k \in DOMAIN memo \cup {digest} |-> IF k = digest THEN list[1] ELSE memo[k]],
                  digest, Tail(list))

\* The pairs of kind and digest of a list of descriptors
Served(kind, list) == {[kind |-> kind, digest |-> list[i].digest] : i \in 1..Len(list)}

\* The call returns its list from the end of the function: the descriptors
\* are written to the memory map and the list is handed back
MemoizeAndReturn(c, rec) ==
    /\ descriptors' = [descriptors EXCEPT ![rec.kind] =
                          Memoized(descriptors[rec.kind], rec.digest, rec.descriptors)]
    /\ ctask' = [ctask EXCEPT ![c] = CallEnded(rec, "done", rec.descriptors)]
    /\ returned' = returned \cup Served(rec.kind, rec.descriptors)

\* relay_server_descriptors / relay_extra_info_descriptors(digests): the
\* memory map is gone through; the call returns what it found when no
\* digest is left, else it asks the archive, whose getters take
\* valid_after_now() for the hint that was not given
CallStart(c, kind, digests) ==
    /\ ctask[c].pc \in {"idle", "done", "raised"}
    /\ calls < MaxCalls
    /\ calls' = calls + 1
    /\ LET scan == MemoryScan(descriptors[kind], 1, digests, <<>>, <<>>)
           rec  == [IdleCall EXCEPT !.kind = kind, !.arg = digests,
                                    !.digests = scan.digests, !.digest = scan.digest,
                                    !.descriptors = scan.descriptors,
                                    !.after = {d \in {digests[i] : i \in 1..Len(digests)} :
                                                  [kind |-> kind, digest |-> d] \in returned}]
       IN  IF scan.raised
           THEN /\ ctask' = [ctask EXCEPT ![c] = CallEnded(rec, "raised", <<>>)]
                /\ UNCHANGED returned
           ELSE IF scan.digests = <<>>
           THEN /\ ctask' = [ctask EXCEPT ![c] = CallEnded(rec, "done", rec.descriptors)]
                /\ returned' = returned \cup Served(kind, rec.descriptors)
           ELSE /\ ctask' = [ctask EXCEPT ![c] = [rec EXCEPT !.pc = "archive",
                                                              !.hint = valid_after_now(utcnow)]]
                /\ UNCHANGED returned
    /\ UNCHANGED <<descriptors, voting, archive_vars, download_vars, invoked, parser_vars, scraper_vars>>

\* What DirectoryArchive's getter of the kind returns for the digest and
\* the hint: the file at the path of the hint's month, parsed
ArchiveFind(kind, digest, hint) ==
    LET path == GetterPath(IF kind = SERVER_DESCRIPTOR THEN "relay_server_descriptor"
                           ELSE "relay_extra_info_descriptor",
                           digest, <<>>, "ns", hint)
    IN  IF path \in DOMAIN files THEN ParseOutcomes(files[path]) ELSE {None}

RECURSIVE Pick(_, _, _)
\* The elements of list at the indexes in S, from index i on
Pick(list, S, i) ==
    IF i > Len(list) THEN <<>>
    ELSE (IF i \in S THEN <<list[i]>> ELSE <<>>) \o Pick(list, S, i + 1)

RECURSIVE RemoveEach(_, _)
\* "for descriptor in archived_descriptors: digests.remove(...)": the list
\* without the digests of the descriptors, or "ValueError" when one of them
\* is not in the list
RemoveEach(digests, list) ==
    IF list = <<>> THEN digests
    ELSE IF InList(digests, list[1].digest)
         THEN RemoveEach(ListRemove(digests, list[1].digest), Tail(list))
         ELSE "ValueError"

\* archive.relay_server_descriptors(digests, published_hint=None) returns:
\* the descriptors found leave the list of digests and join the result; with
\* digests left the downloader is asked, else the call returns
ArchiveReturn(c) ==
    /\ ctask[c].pc = "archive"
    /\ LET rec == ctask[c]
           n   == Len(rec.digests)
       IN  \E outs \in [1..n -> UNION {ArchiveFind(rec.kind, rec.digests[i], rec.hint) : i \in 1..n}] :
              /\ \A i \in 1..n : outs[i] \in ArchiveFind(rec.kind, rec.digests[i], rec.hint)
              /\ LET hits     == Pick(outs, {i \in 1..n : outs[i].status = "descriptor"}, 1)
                     archived == [i \in 1..Len(hits) |-> DocOfRaw(hits[i].raw)]
                     left     == RemoveEach(rec.digests, archived)
                     next     == [rec EXCEPT !.digests = left,
                                             !.descriptors = rec.descriptors \o archived]
                 IN  IF (\E i \in 1..n : outs[i] = Raised) \/ left = "ValueError"
                     THEN /\ ctask' = [ctask EXCEPT ![c] = CallEnded(rec, "raised", <<>>)]
                          /\ UNCHANGED <<descriptors, returned>>
                     ELSE IF left # <<>>
                     THEN /\ ctask' = [ctask EXCEPT ![c] = [next EXCEPT !.pc = "download"]]
                          /\ UNCHANGED <<descriptors, returned>>
                     ELSE MemoizeAndReturn(c, next)
    /\ UNCHANGED <<calls, voting, archive_vars, download_vars, invoked, parser_vars, scraper_vars>>

\* What the directory servers send when all send what they are asked for:
\* any of the descriptors asked for, in the order asked
AnswersAsAsked(kind, digests) ==
    {[i \in 1..Len(Pick(digests, S, 1)) |-> CacheDoc(kind, Pick(digests, S, 1)[i])] :
        S \in SUBSET (1..Len(digests))}

\* What downloader.relay_server_descriptors(digests) can return: the
\* descriptors asked for that were received, and after them a descriptor
\* that an endpoint sent without being asked for it (one not of the batch,
\* or one received before), which _multiple_descriptors logs and appends;
\* the descriptor sent unasked is the one of D2
DownloadAnswers(kind, digests) ==
    {asked \o unasked :
        asked \in AnswersAsAsked(kind, digests),
        unasked \in {<<>>, <<CacheDoc(kind, D2)>>}}

\* The downloader returns: what it got joins the result and is stored one
\* by one (the first store is under way); when it got nothing the call
\* returns
DownloadReturn(c, answer) ==
    /\ ctask[c].pc = "download"
    /\ answer \in DownloadAnswers(ctask[c].kind, ctask[c].digests)
    /\ LET next == [ctask[c] EXCEPT !.descriptors = ctask[c].descriptors \o answer,
                                    !.downloaded = answer, !.todo = answer]
       IN  IF answer # <<>>
           THEN /\ ctask' = [ctask EXCEPT ![c] = [next EXCEPT !.pc = "store"]]
                /\ UNCHANGED <<descriptors, returned>>
           ELSE MemoizeAndReturn(c, next)
    /\ UNCHANGED <<calls, voting, archive_vars, download_vars, invoked, parser_vars, scraper_vars>>

\* "await self.archive.store(descriptor)" is done for the next downloaded
\* descriptor: its file holds the annotated content; after the last one the
\* call returns
CacheStore(c) ==
    /\ ctask[c].pc = "store"
    /\ LET d    == Head(ctask[c].todo)
           path == path_for(d, utcnow)
           next == [ctask[c] EXCEPT !.todo = Tail(ctask[c].todo)]
       IN  /\ files' = [p \in DOMAIN files \cup {path} |->
                           IF p = path THEN prepare_annotated_content(d) ELSE files[p]]
           /\ dirs' = dirs \cup {DirName(path)}
           /\ stored' = stored \cup {[doc |-> d, path |-> path]}
           /\ IF next.todo = <<>>
              THEN MemoizeAndReturn(c, next)
              ELSE /\ ctask' = [ctask EXCEPT ![c] = next]
                   /\ UNCHANGED <<descriptors, returned>>
    /\ UNCHANGED <<calls, voting, utcnow, file_permits, atask, download_vars, invoked, parser_vars, scraper_vars>>

\* The votes there are
Votes == {d \in Docs : d.is_vote}

\* The v3idents and the digests vote() is called with: the fingerprints of
\* the two authorities, the digests of the votes, and "*"
VoteIdents == {d.v3ident : d \in Votes}

VoteDigestArgs == {<<"*">>} \cup {d.sha1 : d \in Votes}

\* No call of vote() yet; vote is the list of what the call returned, empty
\* for None
NotVoting ==
    [pc |-> "idle", v3ident |-> <<>>, digest |-> <<>>, valid_after |-> NoTime,
     path |-> <<>>, vote |-> <<>>, archived |-> FALSE, asked |-> FALSE,
     stored |-> {}, before |-> {}]

\* DirectoryCache.vote(v3ident, digest, valid_after) up to its first await:
\* archive.relay_vote(v3ident, digest="*", valid_after=valid_after) builds
\* the path with "*" for the digest, whatever digest was asked for, and
\* hands it to aglob
vote(v3ident, digest, hinted) ==
    /\ voting.pc \in {"idle", "done", "raised"}
    /\ LET valid_after == IF hinted THEN T_CONS ELSE valid_after_now(utcnow)
       IN  voting' = [NotVoting EXCEPT !.pc = "archive", !.v3ident = v3ident,
                                       !.digest = digest, !.valid_after = valid_after,
                                       !.path = relay_vote_path(valid_after, v3ident,
                                                                Upper(<<"*">>)),
                                       !.before = {DocOfRaw(StripAnnotation(files[p])) :
                                                      p \in {q \in DOMAIN files :
                                                                \E d \in Votes :
                                                                   StripAnnotation(files[q]) = d.raw}}]
    /\ UNCHANGED <<descriptors, ctask, returned, calls, archive_vars, download_vars, invoked, parser_vars, scraper_vars>>

\* archive.relay_vote returns: element 0 of the glob, parsed, is what
\* vote() returns; without a match, or when the file holds no descriptor,
\* the downloader is asked with digest=digest alone
VoteArchived ==
    /\ voting.pc = "archive"
    /\ IF GlobMatches(voting.path) = {}
       THEN voting' = [voting EXCEPT !.pc = "download", !.asked = TRUE]
       ELSE \E path \in GlobMatches(voting.path) :
               \E out \in ParseOutcomes(files[path]) :
                  voting' = IF out.status = "descriptor"
                            THEN [voting EXCEPT !.pc = "done", !.archived = TRUE,
                                                !.vote = <<DocOfRaw(out.raw)>>]
                            ELSE IF out = None
                            THEN [voting EXCEPT !.pc = "download", !.asked = TRUE]
                            ELSE [voting EXCEPT !.pc = "raised"]
    /\ UNCHANGED <<descriptors, ctask, returned, calls, archive_vars, download_vars, invoked, parser_vars, scraper_vars>>

\* What downloader.vote(digest=digest) can return: v3ident, valid_after and
\* endpoint are left at None, so the query goes to directory_authorities();
\* for "*" the resource is /tor/status-vote/current/authority, the vote of
\* the authority that answers, else /tor/status-vote/current/d/<digest>,
\* the vote with that digest, whose authority it may be
VoteAnswers(digest) ==
    {<<>>} \cup {<<d>> : d \in {v \in Votes : digest = <<"*">> \/ VoteDigest(v) = Upper(digest)}}

\* downloader.vote returns: None ends the call with None, a vote is stored
VoteDownloaded(answer) ==
    /\ voting.pc = "download"
    /\ answer \in VoteAnswers(voting.digest)
    /\ voting' = IF answer = <<>>
                 THEN [voting EXCEPT !.pc = "done"]
                 ELSE [voting EXCEPT !.pc = "store", !.vote = answer]
    /\ UNCHANGED <<descriptors, ctask, returned, calls, archive_vars, download_vars, invoked, parser_vars, scraper_vars>>

\* "await self.archive.store(vote)" is done and the vote is returned
VoteStored ==
    /\ voting.pc = "store"
    /\ LET d    == voting.vote[1]
           path == path_for(d, utcnow)
       IN  /\ files' = [p \in DOMAIN files \cup {path} |->
                           IF p = path THEN prepare_annotated_content(d) ELSE files[p]]
           /\ dirs' = dirs \cup {DirName(path)}
           /\ stored' = stored \cup {[doc |-> d, path |-> path]}
           /\ voting' = [voting EXCEPT !.pc = "done", !.stored = {d}]
    /\ UNCHANGED <<descriptors, ctask, returned, calls, utcnow, file_permits, atask, download_vars, invoked, parser_vars, scraper_vars>>

CacheInit ==
    /\ descriptors = [k \in CacheKinds |-> <<>>]
    /\ ctask = [c \in Callers |-> IdleCall]
    /\ returned = {}
    /\ calls = 0
    /\ voting = NotVoting

VotesNext ==
    \/ \E v3ident \in VoteIdents, digest \in VoteDigestArgs, hinted \in BOOLEAN :
          vote(v3ident, digest, hinted)
    \/ VoteArchived
    \/ \E answer \in VoteAnswers(voting.digest) : VoteDownloaded(answer)
    \/ VoteStored
    \/ Tick

CacheNext ==
    \/ \E c \in Callers, kind \in CacheKinds, digests \in CallLists : CallStart(c, kind, digests)
    \/ \E c \in Callers : ArchiveReturn(c)
    \/ \E c \in Callers : \E answer \in DownloadAnswers(ctask[c].kind, ctask[c].digests) :
          DownloadReturn(c, answer)
    \/ \E c \in Callers : CacheStore(c)
    \/ Tick

(***************************************************************************)
(* Properties of the cache                                                 *)
(***************************************************************************)

\* The set of the elements of a list
Elements(list) == {list[i] : i \in 1..Len(list)}

\* The call c is waiting for the downloader, which it asked for digest d
AsksDownloader(c, kind, d) ==
    ctask[c].pc = "download" /\ ctask[c].kind = kind /\ InList(ctask[c].digests, d)

\* C1: concurrent calls that ask for the same digest of the same kind while
\* it is in neither the memory map nor the archive coalesce on one request
\* in flight: the downloader is never asked for the digest by two calls at
\* the same time
C1_FetchesCoalesce ==
    \A c1, c2 \in Callers : \A kind \in CacheKinds : \A d \in {D1, D2} :
        (AsksDownloader(c1, kind, d) /\ AsksDownloader(c2, kind, d)) => c1 = c2

\* C2: once a call has returned a descriptor for digest d, a later call that
\* asks for d, alone or among other digests, does not ask the downloader for
\* d, does not fail, and returns that descriptor
C2_ServedAgainFromCache ==
    \A c \in Callers : \A d \in ctask[c].after :
        /\ ~AsksDownloader(c, ctask[c].kind, d)
        /\ ctask[c].pc # "raised"
        /\ ctask[c].pc = "done" => InList(ctask[c].descriptors, CacheDoc(ctask[c].kind, d))

\* The call c begins in this step
Begins(c) == ctask[c].pc \in {"idle", "done", "raised"} /\ ctask'[c] # ctask[c]

\* The digests the call c asks for in the step in which it begins that the
\* memory map of its kind does not hold
MissesMemory(c) ==
    {d \in Elements(ctask'[c].arg) : d \notin DOMAIN descriptors[ctask'[c].kind]}

\* The digests the archive was asked for by c that it does not hold
MissesArchive(c) ==
    {d \in Elements(ctask[c].digests) : ArchiveFind(ctask[c].kind, d, ctask[c].hint) = {None}}

\* C3: a call with pairwise distinct digests is partitioned: the archive is
\* asked for exactly the digests the memory map does not hold, and not at
\* all when there are none; the downloader is asked for exactly the digests
\* that neither holds, each once, and not at all when there are none
C3_Partitioned ==
    [][\A c \in Callers :
          /\ Begins(c)
               => /\ ctask'[c].pc # "raised"
                  /\ ctask'[c].pc = "archive" <=> MissesMemory(c) # {}
                  /\ ctask'[c].pc = "archive" => Elements(ctask'[c].digests) = MissesMemory(c)
          /\ (ctask[c].pc = "archive" /\ ctask'[c] # ctask[c])
               => /\ ctask'[c].pc = "download" <=> MissesArchive(c) # {}
                  /\ ctask'[c].pc = "download"
                       => /\ Elements(ctask'[c].digests) = MissesArchive(c)
                          /\ Len(ctask'[c].digests) = Cardinality(MissesArchive(c))
      ]_vars

\* The call c returns its list in this step
Returns(c) == ctask[c].pc # "done" /\ ctask'[c].pc = "done" /\ ctask'[c] # ctask[c]

\* C4: when a call returns, every descriptor it got from the downloader is
\* in the archive, every descriptor of the list returned is in the memory
\* map of its kind under its own digest, and every key of that map is the
\* digest of the descriptor under it
C4_ArchivedAndMemoized ==
    [][\A c \in Callers :
          Returns(c)
          => /\ \A i \in 1..Len(ctask[c].downloaded) :
                   /\ path_for(ctask[c].downloaded[i], utcnow) \in DOMAIN files'
                   /\ files'[path_for(ctask[c].downloaded[i], utcnow)]
                        = prepare_annotated_content(ctask[c].downloaded[i])
             /\ \A i \in 1..Len(ctask'[c].descriptors) :
                   /\ ctask'[c].descriptors[i].digest \in DOMAIN descriptors'[ctask'[c].kind]
                   /\ descriptors'[ctask'[c].kind][ctask'[c].descriptors[i].digest]
                        = ctask'[c].descriptors[i]
             /\ \A k \in DOMAIN descriptors'[ctask'[c].kind] :
                   descriptors'[ctask'[c].kind][k].digest = k
      ]_vars

\* C39: every descriptor a multi-digest call returns has a digest of the
\* list the call was made with, and no two descriptors of the list returned
\* have the same digest, whether they came from the memory map, from the
\* archive or from the downloader
C39_ReturnedAsRequested ==
    \A c \in Callers :
        ctask[c].pc = "done"
        => /\ \A i \in 1..Len(ctask[c].descriptors) :
                 ctask[c].descriptors[i].digest \in Elements(ctask[c].arg)
           /\ \A i, j \in 1..Len(ctask[c].descriptors) :
                 ctask[c].descriptors[i].digest = ctask[c].descriptors[j].digest => i = j

(***************************************************************************)
(* The itemizer of directory documents (bushel/documents/directory.py)     *)
(***************************************************************************)

\* DirectoryDocumentItemError.TRAILING_WHITESPACE
TRAILING_WHITESPACE == "trailing-whitespace"

\* The most calls of eat() that are followed
MaxEats == 9

\* DirectoryDocumentToken(kind, value, line, column)
DirectoryDocumentToken(kind, value, line, column) ==
    [kind |-> kind, value |-> value, line |-> line, column |-> column]

\* The kinds of token tokenize() yields
TokenKinds == {"PRINTABLE", "WS", "NL", "BEGIN", "END", "EOF"}

\* The values a token of a kind comes with: two printable strings, of which
\* "QUJD" is base64 and "onion-magic" is not, one object keyword
TokenValues(kind) ==
    CASE kind = "PRINTABLE" -> {"onion-magic", "QUJD"}
      [] kind = "WS" -> {" "}
      [] kind = "NL" -> {"\n"}
      [] kind \in {"BEGIN", "END"} -> {"ONION MAGIC"}
      [] kind = "EOF" -> {"None"}

\* The places a token is found at
TokenPlaces == {[line |-> 1, column |-> 0], [line |-> 2, column |-> 13]}

\* The tokens the itemizer is fed with
DirectoryDocumentTokens ==
    UNION {{DirectoryDocumentToken(kind, value, place.line, place.column) :
               value \in TokenValues(kind), place \in TokenPlaces} : kind \in TokenKinds}

\* No token has been eaten yet (self.token = None)
NoToken == DirectoryDocumentToken("None", "None", 0, 0)

\* DirectoryDocumentItem(keyword, arguments, objects, errors)
DirectoryDocumentItem(keyword, arguments, objects, errors) ==
    [keyword |-> keyword, arguments |-> arguments, objects |-> objects, errors |-> errors]

\* DirectoryDocumentItemizer.__init__(allowed_errors)
NewItemizer(allowed_errors) ==
    [state |-> "START", allowed_errors |-> allowed_errors, token |-> NoToken,
     keyword |-> "None", arguments |-> <<>>, objects |-> <<>>, errors |-> <<>>,
     object_keyword |-> "None", object_data |-> <<>>]

\* A call of eat() returns (None, written <<>>, or an item, written <<item>>)
\* leaving the itemizer as self
EatReturns(self, value) == [self |-> self, raised |-> "none", value |-> value]

\* A call of eat() raises: the class of the error and the line and column
\* its message gives (0, 0 when it gives none)
EatRaises(self, error, line, column) ==
    [self |-> self, raised |-> error, value |-> <<>>, line |-> line, column |-> column]

\* DirectoryDocumentItemizer.reset_object_state
reset_object_state(self) == [self EXCEPT !.object_keyword = "None", !.object_data = <<>>]

\* A reset_item_state that keeps the errors of the item before
reset_item_state_KeepsErrors(self, next_keyword) ==
    reset_object_state([self EXCEPT !.keyword = next_keyword, !.arguments = <<>>,
                                    !.objects = <<>>])

\* DirectoryDocumentItemizer.reset_item_state
reset_item_state(self, next_keyword) ==
    reset_object_state([self EXCEPT !.keyword = next_keyword, !.arguments = <<>>,
                                    !.objects = <<>>, !.errors = <<>>])

\* DirectoryDocumentItemizer.item
item(self) == DirectoryDocumentItem(self.keyword, self.arguments, self.objects, self.errors)

\* An item_done that begins the next item without resetting the item state
item_done_NoReset(self, next_keyword) ==
    EatReturns([self EXCEPT !.keyword = next_keyword,
                            !.state = IF next_keyword # "None" THEN "KEYWORD-LINE" ELSE "START"],
               <<item(self)>>)

\* DirectoryDocumentItemizer.item_done: the item is returned and the state
\* is KEYWORD-LINE when a next keyword is given, START when none is
item_done(self, next_keyword) ==
    EatReturns([reset_item_state(self, next_keyword) EXCEPT
                    !.state = IF next_keyword # "None" THEN "KEYWORD-LINE" ELSE "START"],
               <<item(self)>>)

\* DirectoryDocumentItemizer.error: a forgivable error is appended to the
\* errors of the item when it is allowed; else RuntimeError is raised
error(self, forgivable) ==
    IF \E i \in 1..Len(self.allowed_errors) : self.allowed_errors[i] = forgivable
    THEN EatReturns([self EXCEPT !.errors = Append(self.errors, forgivable)], <<>>)
    ELSE EatRaises(self, forgivable, self.token.line, self.token.column)

\* An expected_not_found whose message leaves the place of the token out
expected_not_found_NoPlace(self) == EatRaises(self, "expected_not_found", 0, 0)

\* DirectoryDocumentItemizer.expected_not_found
expected_not_found(self) ==
    EatRaises(self, "expected_not_found", self.token.line, self.token.column)

\* base64.b64decode of one line of object data: "QUJD" is "ABC"; a line
\* that is no base64 makes b64decode raise binascii.Error
IsBase64(line) == line = "QUJD"

\* decode_object_data(lines): the lines are joined and decoded; the bytes
\* are written as the decoded groups in order
decode_object_data(lines) == [i \in 1..Len(lines) |-> "ABC"]

\* DirectoryDocumentItemizer.token_start
token_start(self) ==
    IF self.token.kind = "PRINTABLE"
    THEN EatReturns([self EXCEPT !.keyword = self.token.value, !.state = "KEYWORD-LINE"], <<>>)
    ELSE expected_not_found(self)

\* DirectoryDocumentItemizer.token_keyword_line
token_keyword_line(self) ==
    IF self.token.kind = "NL"
    THEN EatReturns([self EXCEPT !.state = "KEYWORD-LINE-END"], <<>>)
    ELSE IF self.token.kind = "WS"
    THEN EatReturns([self EXCEPT !.state = "KEYWORD-LINE-WS"], <<>>)
    ELSE expected_not_found(self)

\* DirectoryDocumentItemizer.token_keyword_line_ws
token_keyword_line_ws(self) ==
    IF self.token.kind = "NL"
    THEN LET checked == error(self, TRAILING_WHITESPACE)
         IN  IF checked.raised # "none" THEN checked
             ELSE EatReturns([checked.self EXCEPT !.state = "KEYWORD-LINE-END"], <<>>)
    ELSE IF self.token.kind = "PRINTABLE"
    THEN EatReturns([self EXCEPT !.arguments = Append(self.arguments, self.token.value),
                                 !.state = "KEYWORD-LINE"], <<>>)
    ELSE expected_not_found(self)

\* DirectoryDocumentItemizer.token_keyword_line_end
token_keyword_line_end(self) ==
    IF self.token.kind = "BEGIN"
    THEN EatReturns([self EXCEPT !.object_keyword = self.token.value,
                                 !.state = "OBJECT-DATA"], <<>>)
    ELSE IF self.token.kind = "PRINTABLE"
    THEN item_done(self, self.token.value)
    ELSE IF self.token.kind = "EOF"
    THEN item_done(self, "None")
    ELSE expected_not_found(self)

\* DirectoryDocumentItemizer.token_object_data
token_object_data(self) ==
    IF self.token.kind = "END"
    THEN IF \A i \in 1..Len(self.object_data) : IsBase64(self.object_data[i])
         THEN EatReturns(
                  [reset_object_state(
                       [self EXCEPT !.objects =
                           Append(self.objects,
                                  [keyword |-> self.object_keyword,
                                   data |-> decode_object_data(self.object_data)])])
                   EXCEPT !.state = "KEYWORD-LINE-END"], <<>>)
         ELSE EatRaises(self, "binascii.Error", 0, 0)
    ELSE IF self.token.kind = "PRINTABLE"
    THEN EatReturns([self EXCEPT !.object_data = Append(self.object_data, self.token.value),
                                 !.state = "OBJECT-DATA-EOL"], <<>>)
    ELSE expected_not_found(self)

\* DirectoryDocumentItemizer.token_object_data_eol
token_object_data_eol(self) ==
    IF self.token.kind = "NL"
    THEN EatReturns([self EXCEPT !.state = "OBJECT-DATA"], <<>>)
    ELSE expected_not_found(self)

\* self.token_handlers[self.state](); a state with no handler is a KeyError
token_handlers(self) ==
    CASE self.state = "START" -> token_start(self)
      [] self.state = "KEYWORD-LINE" -> token_keyword_line(self)
      [] self.state = "KEYWORD-LINE-WS" -> token_keyword_line_ws(self)
      [] self.state = "KEYWORD-LINE-END" -> token_keyword_line_end(self)
      [] self.state = "OBJECT-DATA" -> token_object_data(self)
      [] self.state = "OBJECT-DATA-EOL" -> token_object_data_eol(self)
      [] OTHER -> EatRaises(self, "KeyError", 0, 0)

\* The number of characters of a token of text: the literals "-----",
\* "BEGIN" and "END" of the token patterns count their characters, anything
\* else is one character
CharLen(c) == IF c \in {"-----", "BEGIN"} THEN 5 ELSE IF c = "END" THEN 3 ELSE 1

RECURSIVE CharOffset(_, _)
\* mo.start() of a match that begins at the i-th token of the text
CharOffset(text, i) == IF i <= 1 THEN 0 ELSE CharOffset(text, i - 1) + CharLen(text[i - 1])

\* \s: the whitespace characters
Whitespace == {" ", "\t", "\n", "\r"}

\* [A-Za-z0-9- ]: what the keyword of a BEGIN or END line is made of
IsKeywordChar(c) ==
    c \in {"-----", "BEGIN", "END", " ", "s", "k", "o", "m", "O", "M", "K", "A", "Q", "C", "3"}

\* The first place from i on where the text has a token for which Test does
\* not hold, Len(text) + 1 when there is none
RunEnd(text, i, Test(_)) ==
    LET stops == {k \in i..Len(text) : ~Test(text[k])}
    IN  IF stops = {} THEN Len(text) + 1 ELSE CHOOSE k \in stops : \A other \in stops : k <= other

\* r'-----BEGIN [A-Za-z0-9- ]+-----\n' and r'-----END [A-Za-z0-9- ]+-----\n'
\* tried at i: the place of the newline that ends the match, 0 when the
\* pattern does not match there
DelimiterLine(text, i, word) ==
    IF i + 2 <= Len(text) /\ text[i] = "-----" /\ text[i + 1] = word /\ text[i + 2] = " "
    THEN LET stop == RunEnd(text, i + 3, IsKeywordChar)
         IN  IF /\ stop <= Len(text)
                /\ text[stop] = "\n"
                /\ stop - 1 >= i + 4
                /\ text[stop - 1] = "-----"
             THEN stop ELSE 0
    ELSE 0

\* The tokens yielded and how the generator ended
Tokenized(tokens, raised) == [raised |-> raised, tokens |-> tokens]

RECURSIVE TokenizeFrom(_, _, _, _, _, _)
\* The loop of tokenize() over re.finditer from the i-th token of the text
\* on: the alternatives are tried in the order END, BEGIN, NL, PRINTABLE, WS,
\* MISMATCH; an NL moves line_start and line_num before it is yielded; BEGIN
\* and END are yielded with value[11:-6] and value[9:-6]; MISMATCH raises.
\* After the loop EOF is yielded with the column of the last match, which is
\* unbound (column < 0 here) when nothing matched
TokenizeFrom(text, i, line_num, line_start, column, yielded) ==
    IF i > Len(text)
    THEN IF column < 0 THEN Tokenized(yielded, "UnboundLocalError")
         ELSE Tokenized(Append(yielded, DirectoryDocumentToken("EOF", <<>>, line_num, column)),
                        "none")
    ELSE LET at == CharOffset(text, i) - line_start
             end_line == DelimiterLine(text, i, "END")
             begin_line == DelimiterLine(text, i, "BEGIN")
             IsPrintable(c) == c \notin Whitespace
             IsBlank(c) == c \in {" ", "\t"}
         IN  IF end_line # 0
             THEN TokenizeFrom(text, end_line + 1, line_num, line_start, at,
                      Append(yielded,
                             DirectoryDocumentToken("END", SubSeq(text, i + 3, end_line - 2),
                                                    line_num, at)))
             ELSE IF begin_line # 0
             THEN TokenizeFrom(text, begin_line + 1, line_num, line_start, at,
                      Append(yielded,
                             DirectoryDocumentToken("BEGIN", SubSeq(text, i + 3, begin_line - 2),
                                                    line_num, at)))
             ELSE IF text[i] = "\n"
             THEN TokenizeFrom(text, i + 1, line_num + 1, CharOffset(text, i + 1), at,
                      Append(yielded, DirectoryDocumentToken("NL", <<"\n">>, line_num + 1, at)))
             ELSE IF IsPrintable(text[i])
             THEN LET stop == RunEnd(text, i, IsPrintable)
                  IN  TokenizeFrom(text, stop, line_num, line_start, at,
                          Append(yielded,
                                 DirectoryDocumentToken("PRINTABLE", SubSeq(text, i, stop - 1),
                                                        line_num, at)))
             ELSE IF IsBlank(text[i])
             THEN LET stop == RunEnd(text, i, IsBlank)
                  IN  TokenizeFrom(text, stop, line_num, line_start, at,
                          Append(yielded,
                                 DirectoryDocumentToken("WS", SubSeq(text, i, stop - 1),
                                                        line_num, at)))
             ELSE Tokenized(yielded, "RuntimeError")

\* DirectoryDocument(raw_content).tokenize(), run to its end
tokenize(raw_content) == TokenizeFrom(raw_content, 1, 1, 0, -1, <<>>)

\* Nothing has been eaten: fed is the history of the kinds and values of the
\* tokens the itemizer has eaten, items that of the items its eat() has
\* returned, as DirectoryDocument.items() yields them
NotEaten ==
    [raised |-> "none", value |-> <<>>, line |-> 0, column |-> 0, calls |-> 0,
     fed |-> <<>>, items |-> <<>>]

\* DirectoryDocumentItemizer(allowed_errors): a new itemizer takes the place
\* of the one before
DirectoryDocumentItemizer(allowed_errors) ==
    /\ itemizer # NewItemizer(allowed_errors)
    /\ itemizer' = NewItemizer(allowed_errors)
    /\ eaten' = [NotEaten EXCEPT !.calls = eaten.calls]
    /\ UNCHANGED <<liner, lined, archive_vars, download_vars, cache_vars, invoked, scraper_vars>>

\* DirectoryDocumentItemizer.eat(token): the token is kept and the handler
\* of the state is run. An itemizer whose eat() has raised is fed no more
DirectoryDocumentItemizer_eat(token) ==
    /\ eaten.raised = "none"
    /\ eaten.calls < MaxEats
    /\ LET ended == token_handlers([itemizer EXCEPT !.token = token])
       IN  /\ itemizer' = ended.self
           /\ eaten' = [raised |-> ended.raised, value |-> ended.value,
                        line |-> IF ended.raised # "none" THEN ended.line ELSE 0,
                        column |-> IF ended.raised # "none" THEN ended.column ELSE 0,
                        calls |-> eaten.calls + 1,
                        fed |-> Append(eaten.fed, [kind |-> token.kind, value |-> token.value]),
                        items |-> eaten.items \o ended.value]
    /\ UNCHANGED <<liner, lined, archive_vars, download_vars, cache_vars, invoked, scraper_vars>>

ItemizerInit ==
    /\ itemizer = NewItemizer(<<>>)
    /\ eaten = NotEaten

ItemizerNext ==
    \/ \E allowed_errors \in {<<>>, <<TRAILING_WHITESPACE>>} :
          DirectoryDocumentItemizer(allowed_errors)
    \/ \E token \in DirectoryDocumentTokens : DirectoryDocumentItemizer_eat(token)

(***************************************************************************)
(* The liner of bandwidth files (bushel/bandwidth/file.py)                 *)
(***************************************************************************)

\* The most calls of eat() that are followed
MaxLinerEats == 10

\* BandwidthFileToken(kind, value, line, column)
BandwidthFileToken(kind, value, line, column) ==
    [kind |-> kind, value |-> value, line |-> line, column |-> column]

\* The tokens the liner is fed with, one of each kind tokenize() yields
BandwidthFileTokens ==
    {BandwidthFileToken("TIMESTAMP", "1523911758", 1, 0),
     BandwidthFileToken("NL", "\n", 1, 10),
     BandwidthFileToken("KEYVALUE", "bw=380", 2, 0),
     BandwidthFileToken("SP", " ", 2, 6),
     BandwidthFileToken("TERMINATOR", "=====\n", 2, 0),
     BandwidthFileToken("SHORT_TERMINATOR", "====\n", 2, 0),
     BandwidthFileToken("EOF", "None", 2, 0)}

\* BandwidthFileLiner.__init__: allowed_errors is not kept
NewLiner == [state |-> "START"]

\* BandwidthFileLiner.expected_not_found: the message is built from
\* self.token, an attribute that nothing assigns, so that AttributeError is
\* what is raised
BandwidthFileLiner_expected_not_found(self) == [self |-> self, raised |-> "AttributeError"]

\* eat() returns None leaving the liner in the state given
LinerReturns(self, state) == [self |-> [self EXCEPT !.state = state], raised |-> "none"]

\* A liner that takes no space after a key-value of the header
BandwidthFileLiner_eat_NoSpaceInHeader(self, token) ==
    CASE self.state = "START" ->
            IF token.kind = "TIMESTAMP" THEN LinerReturns(self, "TIMESTAMP")
            ELSE BandwidthFileLiner_expected_not_found(self)
      [] self.state = "TIMESTAMP" ->
            IF token.kind = "NL" THEN LinerReturns(self, "HEADER-LINE")
            ELSE BandwidthFileLiner_expected_not_found(self)
      [] self.state = "HEADER-LINE" ->
            IF token.kind = "KEYVALUE" THEN LinerReturns(self, "HEADER-LINE-KV")
            ELSE IF token.kind = "TERMINATOR" THEN LinerReturns(self, "RELAY-LINE")
            ELSE IF token.kind = "SHORT_TERMINATOR" THEN LinerReturns(self, "RELAY-LINE")
            ELSE BandwidthFileLiner_expected_not_found(self)
      [] self.state = "HEADER-LINE-KV" ->
            IF token.kind = "NL" THEN LinerReturns(self, "HEADER-LINE")
            ELSE BandwidthFileLiner_expected_not_found(self)
      [] self.state = "RELAY-LINE" ->
            IF token.kind = "KEYVALUE" THEN LinerReturns(self, "RELAY-LINE-KV")
            ELSE IF token.kind = "EOF" THEN LinerReturns(self, "DONE")
            ELSE BandwidthFileLiner_expected_not_found(self)
      [] self.state = "RELAY-LINE-KV" ->
            IF token.kind = "SP" THEN LinerReturns(self, "RELAY-LINE-SP")
            ELSE IF token.kind = "NL" THEN LinerReturns(self, "RELAY-LINE")
            ELSE BandwidthFileLiner_expected_not_found(self)
      [] self.state = "RELAY-LINE-SP" ->
            IF token.kind = "KEYVALUE" THEN LinerReturns(self, "RELAY-LINE-KV")
            ELSE BandwidthFileLiner_expected_not_found(self)
      [] OTHER -> [self |-> self, raised |-> "RuntimeError"]

\* BandwidthFileLiner.eat(token): the if/elif chain over self.state; a state
\* that is none of the seven (DONE) falls to the last line, which raises
\* RuntimeError("Bad state transition")
BandwidthFileLiner_eat(self, token) ==
    CASE self.state = "START" ->
            IF token.kind = "TIMESTAMP" THEN LinerReturns(self, "TIMESTAMP")
            ELSE BandwidthFileLiner_expected_not_found(self)
      [] self.state = "TIMESTAMP" ->
            IF token.kind = "NL" THEN LinerReturns(self, "HEADER-LINE")
            ELSE BandwidthFileLiner_expected_not_found(self)
      [] self.state = "HEADER-LINE" ->
            IF token.kind = "KEYVALUE" THEN LinerReturns(self, "HEADER-LINE-KV")
            ELSE IF token.kind = "TERMINATOR" THEN LinerReturns(self, "RELAY-LINE")
            ELSE IF token.kind = "SHORT_TERMINATOR" THEN LinerReturns(self, "RELAY-LINE")
            ELSE BandwidthFileLiner_expected_not_found(self)
      [] self.state = "HEADER-LINE-KV" ->
            IF token.kind = "NL" THEN LinerReturns(self, "HEADER-LINE")
            ELSE IF token.kind = "SP" THEN LinerReturns(self, "RELAY-LINE-SP")
            ELSE BandwidthFileLiner_expected_not_found(self)
      [] self.state = "RELAY-LINE" ->
            IF token.kind = "KEYVALUE" THEN LinerReturns(self, "RELAY-LINE-KV")
            ELSE IF token.kind = "EOF" THEN LinerReturns(self, "DONE")
            ELSE BandwidthFileLiner_expected_not_found(self)
      [] self.state = "RELAY-LINE-KV" ->
            IF token.kind = "SP" THEN LinerReturns(self, "RELAY-LINE-SP")
            ELSE IF token.kind = "NL" THEN LinerReturns(self, "RELAY-LINE")
            ELSE BandwidthFileLiner_expected_not_found(self)
      [] self.state = "RELAY-LINE-SP" ->
            IF token.kind = "KEYVALUE" THEN LinerReturns(self, "RELAY-LINE-KV")
            ELSE BandwidthFileLiner_expected_not_found(self)
      [] OTHER -> [self |-> self, raised |-> "RuntimeError"]

\* BandwidthFileLineError.SHORT_TERMINATOR, the one member of the enumeration
SHORT_TERMINATOR == "short-terminator"

\* The lists of allowed errors a liner is constructed with
AllowedErrorLists == {<<>>, <<SHORT_TERMINATOR>>}

\* Nothing has been fed to a liner constructed with the allowed errors
\* given: allowed is the argument of the constructor, fed the history of the
\* kinds of the tokens eaten and passed the history of the states the liner
\* has been in
Unfed(allowed_errors) ==
    [allowed |-> allowed_errors, fed |-> <<>>, passed |-> <<"START">>, raised |-> "none"]

\* The liner of lines() called without allowed errors
NotLined == Unfed(<<>>)

\* BandwidthFileLiner(allowed_errors), as BandwidthFile.lines() constructs it
\* for a document: a new liner in state START
BandwidthFileLiner(allowed_errors) ==
    /\ liner' = NewLiner
    /\ lined' = Unfed(allowed_errors)
    /\ UNCHANGED <<itemizer, eaten, archive_vars, download_vars, cache_vars, invoked, scraper_vars>>

\* liner.eat(token), as BandwidthFile.lines() calls it for each token in
\* turn; a liner whose eat() has raised is fed no more
LinerEat(token) ==
    /\ lined.raised = "none"
    /\ Len(lined.fed) < MaxLinerEats
    /\ LET ended == BandwidthFileLiner_eat(liner, token)
       IN  /\ liner' = ended.self
           /\ lined' = [allowed |-> lined.allowed, fed |-> Append(lined.fed, token.kind),
                        passed |-> Append(lined.passed, ended.self.state),
                        raised |-> ended.raised]
    /\ UNCHANGED <<itemizer, eaten, archive_vars, download_vars, cache_vars, invoked, scraper_vars>>

LinerInit ==
    /\ liner = NewLiner
    /\ lined = NotLined

LinerNext ==
    \/ \E allowed_errors \in AllowedErrorLists : BandwidthFileLiner(allowed_errors)
    \/ \E token \in BandwidthFileTokens : LinerEat(token)

(***************************************************************************)
(* The scraper (bushel/scraper.py)                                         *)
(***************************************************************************)

\* dir_port_from_v3ident(v3ident): the directory port of the authority with
\* that identity, None when the loop finds none
dir_port_from_v3ident(v3ident) ==
    LET known == {i \in 1..Len(DIRECTORY_AUTHORITIES) : DIRECTORY_AUTHORITIES[i].v3ident = v3ident}
    IN  IF known = {} THEN "None"
        ELSE DIRECTORY_AUTHORITIES[CHOOSE i \in known : \A other \in known : i <= other].dir_port

\* A network status as discover_server_descriptors() reads it: is_vote,
\* directory_authorities[0].v3ident and the digests of routers.values()
NetworkStatus(is_vote, v3ident, digests) ==
    [is_vote |-> is_vote, routers |-> digests, v3ident |-> v3ident]

\* The votes of moria1 and of tor26, a vote of an authority that is not in
\* DIRECTORY_AUTHORITIES, and two consensuses
VOTE_MORIA1 == NetworkStatus(TRUE, DIRECTORY_AUTHORITIES[1].v3ident, <<D1, D2>>)

VOTE_TOR26 == NetworkStatus(TRUE, DIRECTORY_AUTHORITIES[2].v3ident, <<D2, D3>>)

VOTE_STRANGER == NetworkStatus(TRUE, <<"0", "0", "0", "0">>, <<D3>>)

CONSENSUS_12 == NetworkStatus(FALSE, DIRECTORY_AUTHORITIES[1].v3ident, <<D1, D2>>)

CONSENSUS_3 == NetworkStatus(FALSE, DIRECTORY_AUTHORITIES[1].v3ident, <<D3>>)

\* The lists of statuses descriptors are discovered for
StatusLists ==
    {<<>>,
     <<VOTE_MORIA1>>,
     <<CONSENSUS_12>>,
     <<VOTE_MORIA1, VOTE_TOR26>>,
     <<VOTE_MORIA1, CONSENSUS_3>>,
     <<VOTE_STRANGER, VOTE_TOR26>>,
     <<VOTE_MORIA1, VOTE_TOR26, CONSENSUS_12>>}

RECURSIVE References(_)
\* The pairs (status_entry.digest, endpoint) in the order the two loops over
\* statuses and status.routers.values() append them to referencing_endpoints;
\* the endpoint of a status that is no vote is None
References(statuses) ==
    IF statuses = <<>> THEN <<>>
    ELSE LET status == Head(statuses)
             endpoint == IF status.is_vote THEN dir_port_from_v3ident(status.v3ident)
                         ELSE "None"
         IN  [i \in 1..Len(status.routers) |->
                 [digest |-> status.routers[i], endpoint |-> endpoint]]
             \o References(Tail(statuses))

\* referencing_endpoints, a defaultdict(list): for every digest referenced
\* the list of the endpoints of the statuses that reference it
referencing_endpoints(statuses) ==
    LET references == References(statuses)
        Of(digest) ==
            LET referencing == SelectSeq(references, LAMBDA r : r.digest = digest)
            IN  [i \in 1..Len(referencing) |-> referencing[i].endpoint]
    IN  [digest \in {references[i].digest : i \in 1..Len(references)} |-> Of(digest)]

\* list(set(chain(*referencing_endpoints.values())))
all_endpoints(referencing) ==
    UNION {{referencing[digest][i] : i \in 1..Len(referencing[digest])} :
              digest \in DOMAIN referencing}

\* endpoint_assignments, a defaultdict(list): the digests go, each to the
\* endpoint random.choice(all_endpoints) drew for it, in the lists of the
\* endpoints drawn; the lists are kept as sets
endpoint_assignments(referencing, choice) ==
    [endpoint \in {choice[digest] : digest \in DOMAIN referencing} |->
        {digest \in DOMAIN referencing : choice[digest] = endpoint}]

\* No discover_server_descriptors() has been called
NotDiscovered ==
    [assignments |-> <<>>, preference |-> FALSE, raised |-> "none", referencing |-> <<>>,
     requests |-> {}, statuses |-> <<>>]

\* DirectoryScraper.discover_server_descriptors(statuses, endpoint_preference),
\* choice being what random.choice draws for each digest. Both branches
\* call self.cache.descriptor, and DirectoryCache has no attribute of that
\* name: with endpoint_preference the list comprehension looks it up for the
\* first assignment, if there is one, and without it the call looks it up at
\* once, so that AttributeError is raised before anything is asked of the
\* cache; requests is the set of the calls the cache has received
discover_server_descriptors(statuses, endpoint_preference, choice) ==
    LET referencing == referencing_endpoints(statuses)
        assignments == IF endpoint_preference THEN endpoint_assignments(referencing, choice)
                       ELSE <<>>
    IN  /\ discovered' =
               [assignments |-> assignments,
                preference |-> endpoint_preference,
                raised |-> IF endpoint_preference /\ DOMAIN assignments = {} THEN "none"
                           ELSE "AttributeError",
                referencing |-> referencing,
                requests |-> {},
                statuses |-> statuses]
        /\ UNCHANGED <<scraped, archive_vars, download_vars, cache_vars, invoked, parser_vars>>

\* The draws of random.choice(all_endpoints) for the digests of the statuses
Choices(statuses) ==
    LET referencing == referencing_endpoints(statuses)
    IN  [DOMAIN referencing -> all_endpoints(referencing)]

\* No _scrape() has been called
NotScraped == [argument |-> CLIENT, ended |-> FALSE, raised |-> "none"]

\* DirectoryScraper._scrape(directory_cache_mode): the mode is set, to CLIENT
\* for everything that is not DIRECTORY_CACHE, and discover_votes() is
\* awaited, whose loop over the shuffled authorities begins with
\* self.archive.vote(authority.v3ident); DirectoryArchive has no attribute
\* vote, so that AttributeError leaves discover_votes() and _scrape() before
\* anything is awaited
_scrape(directory_cache_mode) ==
    /\ IF directory_cache_mode = DIRECTORY_CACHE
       THEN /\ endpoints' = directory_authorities
            /\ extra_info_endpoints' = directory_authorities
            /\ mode' = [argument |-> DIRECTORY_CACHE, raised |-> FALSE]
       ELSE /\ endpoints' = directory_caches(current_consensus, routers, descriptor_cache, FALSE)
            /\ extra_info_endpoints' =
                   directory_caches(current_consensus, routers, descriptor_cache, TRUE)
            /\ mode' = [argument |-> CLIENT, raised |-> FALSE]
    /\ scraped' = [argument |-> directory_cache_mode, ended |-> TRUE,
                   raised |-> IF Len(DIRECTORY_AUTHORITIES) > 0 THEN "AttributeError"
                              ELSE "none"]
    /\ UNCHANGED <<current_consensus, routers, descriptor_cache, http_permits, dtask, requested,
                   discovered, archive_vars, cache_vars, invoked, parser_vars>>

ScraperInit ==
    /\ discovered = NotDiscovered
    /\ scraped = NotScraped

\* The scraper is asked to scrape and to discover the server descriptors
\* of statuses
ScraperNext ==
    \/ \E directory_cache_mode \in ModeArguments : _scrape(directory_cache_mode)
    \/ \E statuses \in StatusLists, endpoint_preference \in BOOLEAN :
          \E choice \in Choices(statuses) :
              discover_server_descriptors(statuses, endpoint_preference, choice)

(***************************************************************************)
(* Monitoring (bushel/monitoring/__init__.py)                              *)
(***************************************************************************)

\* The Nagios return codes
OK == 0

WARNING == 1

CRITICAL == 2

\* (a - b).total_seconds() for two times of the same month
total_seconds(a, b) ==
    LET Seconds(dt) == ((dt.day * 24 + dt.hour) * 60 + dt.minute) * 60 + dt.second
    IN  Seconds(a) - Seconds(b)

\* a < b for two times of the same month
Earlier(a, b) == total_seconds(a, b) < 0

\* oldest_datetime(dts): min(dts, key=...) gives the first key, in the order
\* of the dict, whose time no other time is earlier than; dts is the dict as
\* the sequence of its items
oldest_datetime(dts) ==
    LET least == {i \in 1..Len(dts) : \A j \in 1..Len(dts) : ~Earlier(dts[j].dt, dts[i].dt)}
    IN  dts[CHOOSE i \in least : \A other \in least : i <= other]

\* The three messages, with what is formatted into them
NagiosMessage(text, sec, key, iso) == [text |-> text, sec |-> sec, key |-> key, iso |-> iso]

\* A check that takes a timestamp as old as a threshold for too old
utc_datetime_too_old_AtThreshold(dts, warning_if_older, critical_if_older, now) ==
    LET oldest == oldest_datetime(dts)
        oldest_sec == total_seconds(now, oldest.dt)
    IN  IF oldest_sec >= critical_if_older
        THEN <<CRITICAL, NagiosMessage("Timestamp is too old", oldest_sec, oldest.key, oldest.dt)>>
        ELSE IF oldest_sec >= warning_if_older
        THEN <<WARNING,
               NagiosMessage("Timestamp is not recent", oldest_sec, oldest.key, oldest.dt)>>
        ELSE <<OK, NagiosMessage("Valid response with recent timestamp", oldest_sec,
                                 oldest.key, oldest.dt)>>

\* utc_datetime_too_old(dts, warning_if_older, critical_if_older, utcnow)
\* called with a time for utcnow
utc_datetime_too_old(dts, warning_if_older, critical_if_older, now) ==
    LET oldest == oldest_datetime(dts)
        oldest_sec == total_seconds(now, oldest.dt)
    IN  IF oldest_sec > critical_if_older
        THEN <<CRITICAL, NagiosMessage("Timestamp is too old", oldest_sec, oldest.key, oldest.dt)>>
        ELSE IF oldest_sec > warning_if_older
        THEN <<WARNING,
               NagiosMessage("Timestamp is not recent", oldest_sec, oldest.key, oldest.dt)>>
        ELSE <<OK, NagiosMessage("Valid response with recent timestamp", oldest_sec,
                                 oldest.key, oldest.dt)>>

(***************************************************************************)
(* The module-level functions, called on their own                         *)
(***************************************************************************)

NotInvoked == [fn |-> "none", args |-> <<>>, result |-> <<>>]

Invoke(fn, args, result) ==
    /\ invoked' = [fn |-> fn, args |-> args, result |-> result]
    /\ UNCHANGED <<archive_vars, download_vars, cache_vars, parser_vars, scraper_vars>>

\* The arguments the functions are called with: both subdirectories, the
\* markers of the digest-sharded and of the date-sharded kinds, times with
\* one-digit and two-digit fields, and digests in upper, lower and mixed case
Subdirectories == {BRIDGE_DESCRIPTORS, RELAY_DESCRIPTORS}

DigestMarkers == {MARKER_SERVER_DESCRIPTOR, MARKER_EXTRA_INFO}

Times == {T_NOV, T_JAN, T_OCT, T_CONS}

HexDigests ==
    {<<"A", "9", "4">>, <<"a", "9", "4">>, <<"E", "f", "2">>, <<"e", "F", "2">>,
     <<"0", "b", "C", "d">>}

V3Idents == {<<"D", "5", "8", "6">>, <<"d", "5", "8", "6">>, <<"1", "4", "c", "1">>}

\* Every order of up to three digests, and lists with digests in lower case
QueryLists ==
    UNION {Shuffles(l) : l \in DigestLists}
        \cup {<<Lower(D1)>>, <<Lower(D1), D2>>, <<Lower(D1), Lower(D2)>>}

\* Lists of base64 microdescriptor hashes, of mixed case
MicroHashLists ==
    {<<>>, <<<<"Z", "6", "s">>>>, <<<<"Z", "6", "s">>, <<"F", "k", "/">>>>,
     <<<<"F", "k", "/">>, <<"Z", "6", "s">>>>}

Call_collector_521_path(subdirectory, marker, published, digest) ==
    Invoke("collector_521_path", <<subdirectory, marker, published, digest>>,
           collector_521_path(subdirectory, marker, published, digest))

Call_collector_534_microdescriptor_path(valid_after, digest) ==
    Invoke("collector_534_microdescriptor_path", <<valid_after, digest>>,
           collector_534_microdescriptor_path(valid_after, digest))

\* A bridge status: collector_522_path with a collector_422_filename
Call_bridge_status(valid_after, fingerprint) ==
    Invoke("bridge_status", <<valid_after, fingerprint>>,
           collector_522_path(BRIDGE_DESCRIPTORS, MARKER_STATUSES, valid_after,
                              collector_422_filename(valid_after, fingerprint)))

\* An ns consensus: collector_522_path with a collector_431_filename
Call_consensus(valid_after) ==
    Invoke("consensus", <<valid_after>>,
           collector_522_path(RELAY_DESCRIPTORS, MARKER_CONSENSUS, valid_after,
                              collector_431_filename(valid_after)))

\* A vote: collector_522_path with a collector_433_filename
Call_vote(valid_after, v3ident, digest) ==
    Invoke("vote", <<valid_after, v3ident, digest>>,
           collector_522_path(RELAY_DESCRIPTORS, MARKER_VOTE, valid_after,
                              collector_433_filename(valid_after, v3ident, digest)))

Call_collector_534_consensus_path(valid_after) ==
    Invoke("collector_534_consensus_path", <<valid_after>>,
           collector_534_consensus_path(valid_after))

Call_prepare_annotated_content(d) ==
    Invoke("prepare_annotated_content", <<d>>, prepare_annotated_content(d))

Call_relay_server_descriptors_query_path(digests) ==
    Invoke("relay_server_descriptors_query_path", <<digests>>,
           relay_server_descriptors_query_path(digests))

Call_relay_extra_info_descriptors_query_path(digests) ==
    Invoke("relay_extra_info_descriptors_query_path", <<digests>>,
           relay_extra_info_descriptors_query_path(digests))

Call_relay_microdescriptors_query_path(hashes) ==
    Invoke("relay_microdescriptors_query_path", <<hashes>>,
           relay_microdescriptors_query_path(hashes))

\* A document of a keyword line with one argument, a keyword line without
\* argument and one object, every line ended by LF
ObjectDocument(keyword, argument, second, object_keyword, data) ==
    keyword \o <<" ">> \o argument \o <<"\n">> \o second \o <<"\n">>
        \o <<"-----", "BEGIN", " ">> \o object_keyword \o <<"-----", "\n">>
        \o data \o <<"\n">>
        \o <<"-----", "END", " ">> \o object_keyword \o <<"-----", "\n">>

\* The keywords and arguments, the object keywords and the lines of object
\* data the documents are written with
Words == {<<"s", "k">>, <<"3">>}

ObjectKeywords == {<<"O", " ", "M">>, <<"K">>}

ObjectData == {<<"A", "Q", "/", "C">>}

\* The documents that are tokenized: those of the shape above; one without
\* the last LF; the empty document; lines with trailing whitespace, with a
\* tab and with CR LF; a BEGIN line without keyword
Documents ==
    {ObjectDocument(keyword, argument, second, object_keyword, data) :
        keyword \in Words, argument \in Words, second \in Words,
        object_keyword \in ObjectKeywords, data \in ObjectData}
    \cup {<<>>,
          <<"s", "k", "\n", "-----", "BEGIN", " ", "K", "-----", "\n", "A", "Q", "\n",
            "-----", "END", " ", "K", "-----">>,
          <<"s", "k", " ", "\n">>,
          <<"s", "k", "\t", " ", "3", "\n">>,
          <<"s", "k", "\r", "\n">>,
          <<"-----", "BEGIN", " ", "-----", "\n">>}

Call_tokenize(raw_content) == Invoke("tokenize", <<raw_content>>, tokenize(raw_content))

\* The timestamps that are checked, all of 2019-05-03, and the time of the
\* check
CheckedTimes ==
    {DateTime(2019, 5, 3, 17, 20, 30), DateTime(2019, 5, 3, 17, 20, 20),
     DateTime(2019, 5, 3, 17, 19, 50), DateTime(2019, 5, 3, 17, 20, 50)}

CheckTime == DateTime(2019, 5, 3, 17, 20, 50)

\* The dicts of timestamps, of one to three entries, two of which may hold
\* the same time
TimestampDicts ==
    {<<[dt |-> a, key |-> "ts1"]>> : a \in CheckedTimes}
    \cup {<<[dt |-> a, key |-> "ts1"], [dt |-> b, key |-> "ts2"]>> :
             a \in CheckedTimes, b \in CheckedTimes}
    \cup {<<[dt |-> a, key |-> "ts1"], [dt |-> b, key |-> "ts2"], [dt |-> a, key |-> "ts3"]>> :
             a \in CheckedTimes, b \in CheckedTimes}

\* The thresholds, in seconds: below, at and above the ages that occur
Thresholds == {20, 30, 60}

Call_utc_datetime_too_old(dts, warning_if_older, critical_if_older, now) ==
    Invoke("utc_datetime_too_old", <<dts, warning_if_older, critical_if_older, now>>,
           utc_datetime_too_old(dts, warning_if_older, critical_if_older, now))

FunctionsInit == invoked = NotInvoked

FunctionsNext ==
    \/ \E subdirectory \in Subdirectories, marker \in DigestMarkers,
          published \in Times, digest \in HexDigests :
          Call_collector_521_path(subdirectory, marker, published, digest)
    \/ \E valid_after \in Times, digest \in HexDigests :
          Call_collector_534_microdescriptor_path(valid_after, digest)
    \/ \E valid_after \in Times, fingerprint \in HexDigests :
          Call_bridge_status(valid_after, fingerprint)
    \/ \E valid_after \in Times : Call_consensus(valid_after)
    \/ \E valid_after \in Times, v3ident \in V3Idents, digest \in HexDigests :
          Call_vote(valid_after, v3ident, digest)
    \/ \E valid_after \in Times : Call_collector_534_consensus_path(valid_after)
    \/ \E d \in Docs : Call_prepare_annotated_content(d)
    \/ \E digests \in QueryLists : Call_relay_server_descriptors_query_path(digests)
    \/ \E digests \in QueryLists : Call_relay_extra_info_descriptors_query_path(digests)
    \/ \E hashes \in MicroHashLists : Call_relay_microdescriptors_query_path(hashes)
    \/ \E raw_content \in Documents : Call_tokenize(raw_content)
    \/ \E dts \in TimestampDicts, warning_if_older \in Thresholds,
          critical_if_older \in Thresholds :
          Call_utc_datetime_too_old(dts, warning_if_older, critical_if_older, CheckTime)

(***************************************************************************)
(* Properties of the module-level functions                                *)
(***************************************************************************)

RECURSIVE Split(_, _)
\* text.split(sep): the parts of a text between the separators
Split(text, sep) ==
    LET at == {i \in 1..Len(text) : text[i] = sep}
    IN  IF at = {} THEN <<text>>
        ELSE LET first == CHOOSE i \in at : \A j \in at : i <= j
             IN  <<SubSeq(text, 1, first - 1)>> \o Split(SubSeq(text, first + 1, Len(text)), sep)

DigitValue(c) ==
    CASE c = "0" -> 0 [] c = "1" -> 1 [] c = "2" -> 2 [] c = "3" -> 3 [] c = "4" -> 4
      [] c = "5" -> 5 [] c = "6" -> 6 [] c = "7" -> 7 [] c = "8" -> 8 [] c = "9" -> 9

IsDigits(text) ==
    \A i \in 1..Len(text) : text[i] \in {"0", "1", "2", "3", "4", "5", "6", "7", "8", "9"}

RECURSIVE NumberOf(_)
\* int(text) for a text of decimal digits
NumberOf(text) ==
    IF text = <<>> THEN 0
    ELSE NumberOf(SubSeq(text, 1, Len(text) - 1)) * 10 + DigitValue(text[Len(text)])

\* The text is the number n written with exactly two digits
TwoDigits(text, n) == Len(text) = 2 /\ IsDigits(text) /\ NumberOf(text) = n

\* The text is the number n in decimal
Decimal(text, n) == text # <<>> /\ IsDigits(text) /\ NumberOf(text) = n

\* int(c, 16) of one hex character of either case
HexValue(c) ==
    CASE c \in {"a", "A"} -> 10 [] c \in {"b", "B"} -> 11 [] c \in {"c", "C"} -> 12
      [] c \in {"d", "D"} -> 13 [] c \in {"e", "E"} -> 14 [] c \in {"f", "F"} -> 15
      [] OTHER -> DigitValue(c)

\* Two hex texts that differ at most in the case of their letters
SameHex(a, b) == Len(a) = Len(b) /\ \A i \in 1..Len(a) : HexValue(a[i]) = HexValue(b[i])

IsLowerHex(text) ==
    \A i \in 1..Len(text) :
        text[i] \in {"0", "1", "2", "3", "4", "5", "6", "7", "8", "9", "a", "b", "c", "d", "e", "f"}

IsUpperHex(text) ==
    \A i \in 1..Len(text) :
        text[i] \in {"0", "1", "2", "3", "4", "5", "6", "7", "8", "9", "A", "B", "C", "D", "E", "F"}

\* C15: collector_521_path gives <subdir>/<marker>/YYYY/MM/<d0>/<d1>/<digest>
\* and collector_534_microdescriptor_path gives
\* relay-descriptors/microdesc/YYYY/MM/micro/<d0>/<d1>/<digest>, with the
\* month in two digits, the digest in lower case and d0, d1 its first two
\* characters; a digest that differs only in case gives the same path
C15_DigestSharded ==
    /\ invoked.fn = "collector_521_path"
       => LET subdirectory == invoked.args[1]
              marker       == invoked.args[2]
              published    == invoked.args[3]
              digest       == invoked.args[4]
              parts        == Split(invoked.result, "/")
          IN  /\ Len(parts) = 7
              /\ parts[1] = subdirectory
              /\ parts[2] = marker
              /\ Decimal(parts[3], published.year)
              /\ TwoDigits(parts[4], published.month)
              /\ parts[5] = <<parts[7][1]>>
              /\ parts[6] = <<parts[7][2]>>
              /\ IsLowerHex(parts[7])
              /\ SameHex(parts[7], digest)
              /\ \A other \in HexDigests :
                    SameHex(other, digest)
                    => collector_521_path(subdirectory, marker, published, other)
                         = invoked.result
    /\ invoked.fn = "collector_534_microdescriptor_path"
       => LET valid_after == invoked.args[1]
              digest      == invoked.args[2]
              parts       == Split(invoked.result, "/")
          IN  /\ Len(parts) = 8
              /\ parts[1] = <<"relay-descriptors">>
              /\ parts[2] = <<"microdesc">>
              /\ Decimal(parts[3], valid_after.year)
              /\ TwoDigits(parts[4], valid_after.month)
              /\ parts[5] = <<"micro">>
              /\ parts[6] = <<parts[8][1]>>
              /\ parts[7] = <<parts[8][2]>>
              /\ IsLowerHex(parts[8])
              /\ SameHex(parts[8], digest)
              /\ \A other \in HexDigests :
                    SameHex(other, digest)
                    => collector_534_microdescriptor_path(valid_after, other) = invoked.result

\* collector_521_path was called for January 2019 with a digest of mixed case
C15_Witness ==
    /\ invoked.fn = "collector_521_path"
    /\ invoked.args = <<BRIDGE_DESCRIPTORS, MARKER_EXTRA_INFO, T_JAN, <<"E", "f", "2">>>>
    /\ invoked.result = <<"bridge-descriptors", "/", "extra-info", "/", "2", "0", "1", "9", "/",
                          "0", "1", "/", "e", "/", "f", "/", "e", "f", "2">>

\* The six parts are the fields of t as YYYY, MM, DD, HH, MM, SS, each but
\* the year in exactly two digits
DashedStamp(parts, t) ==
    /\ Decimal(parts[1], t.year)
    /\ TwoDigits(parts[2], t.month)
    /\ TwoDigits(parts[3], t.day)
    /\ TwoDigits(parts[4], t.hour)
    /\ TwoDigits(parts[5], t.minute)
    /\ TwoDigits(parts[6], t.second)

\* The directory parts are <subdir>/<marker>/YYYY/MM/DD of t
DateSharded(parts, subdirectory, marker, t) ==
    /\ parts[1] = subdirectory
    /\ parts[2] = marker
    /\ Decimal(parts[3], t.year)
    /\ TwoDigits(parts[4], t.month)
    /\ TwoDigits(parts[5], t.day)

\* C16: ns consensuses, votes and bridge statuses are placed at
\* <subdir>/<marker>/YYYY/MM/DD/<filename> and microdesc consensuses at
\* relay-descriptors/microdesc/YYYY/MM/consensus-microdesc/DD/<filename>; the
\* filenames are YYYY-MM-DD-HH-MM-SS-consensus, ...-consensus-microdesc,
\* ...-vote-<V3IDENT>-<DIGEST> and YYYYMMDD-HHMMSS-<FINGERPRINT>, every field
\* after the year in two digits and v3ident, digest and fingerprint in upper
\* case whatever the case they were given in
C16_DateSharded ==
    /\ invoked.fn = "consensus"
       => LET valid_after == invoked.args[1]
              parts       == Split(invoked.result, "/")
              name        == Split(parts[6], "-")
          IN  /\ Len(parts) = 6
              /\ DateSharded(parts, <<"relay-descriptors">>, <<"consensus">>, valid_after)
              /\ Len(name) = 7
              /\ DashedStamp(name, valid_after)
              /\ name[7] = <<"consensus">>
    /\ invoked.fn = "vote"
       => LET valid_after == invoked.args[1]
              v3ident     == invoked.args[2]
              digest      == invoked.args[3]
              parts       == Split(invoked.result, "/")
              name        == Split(parts[6], "-")
          IN  /\ Len(parts) = 6
              /\ DateSharded(parts, <<"relay-descriptors">>, <<"vote">>, valid_after)
              /\ Len(name) = 8
              /\ DashedStamp(name, valid_after)
              /\ Head(name[7]) = "vote-"
              /\ IsUpperHex(Tail(name[7]))
              /\ SameHex(Tail(name[7]), v3ident)
              /\ IsUpperHex(name[8])
              /\ SameHex(name[8], digest)
    /\ invoked.fn = "bridge_status"
       => LET valid_after == invoked.args[1]
              fingerprint == invoked.args[2]
              parts       == Split(invoked.result, "/")
              name        == Split(parts[6], "-")
              date        == name[1]
              time        == name[2]
          IN  /\ Len(parts) = 6
              /\ DateSharded(parts, <<"bridge-descriptors">>, <<"statuses">>, valid_after)
              /\ Len(name) = 3
              /\ Len(date) > 4
              /\ Decimal(SubSeq(date, 1, Len(date) - 4), valid_after.year)
              /\ TwoDigits(SubSeq(date, Len(date) - 3, Len(date) - 2), valid_after.month)
              /\ TwoDigits(SubSeq(date, Len(date) - 1, Len(date)), valid_after.day)
              /\ Len(time) = 6
              /\ TwoDigits(SubSeq(time, 1, 2), valid_after.hour)
              /\ TwoDigits(SubSeq(time, 3, 4), valid_after.minute)
              /\ TwoDigits(SubSeq(time, 5, 6), valid_after.second)
              /\ IsUpperHex(name[3])
              /\ SameHex(name[3], fingerprint)
    /\ invoked.fn = "collector_534_consensus_path"
       => LET valid_after == invoked.args[1]
              parts       == Split(invoked.result, "/")
              name        == Split(parts[7], "-")
          IN  /\ Len(parts) = 7
              /\ parts[1] = <<"relay-descriptors">>
              /\ parts[2] = <<"microdesc">>
              /\ Decimal(parts[3], valid_after.year)
              /\ TwoDigits(parts[4], valid_after.month)
              /\ parts[5] = <<"consensus-microdesc">>
              /\ TwoDigits(parts[6], valid_after.day)
              /\ Len(name) = 7
              /\ DashedStamp(name, valid_after)
              /\ name[7] = <<"consensus-", "microdesc">>

\* The path of a vote was asked for with one-digit time fields and with the
\* v3ident and the digest in lower and mixed case
C16_Witness ==
    /\ invoked.fn = "vote"
    /\ invoked.args = <<T_JAN, <<"d", "5", "8", "6">>, <<"e", "F", "2">>>>
    /\ invoked.result = <<"relay-descriptors", "/", "vote", "/", "2", "0", "1", "9", "/",
                          "0", "1", "/", "0", "5", "/",
                          "2", "0", "1", "9", "-", "0", "1", "-", "0", "5", "-",
                          "0", "7", "-", "0", "8", "-", "0", "9", "-",
                          "vote-", "D", "5", "8", "6", "-", "E", "F", "2">>

\* The index of the first line end of a text (0 when it has none)
FirstLineEnd(text) ==
    LET at == {i \in 1..Len(text) : text[i] = "\n"}
    IN  IF at = {} THEN 0 ELSE CHOOSE i \in at : \A j \in at : i <= j

CharRank(c) ==
    IF IsDigits(<<c>>) THEN 48 + DigitValue(c)
    ELSE IF IsUpperHex(<<c>>) THEN 55 + HexValue(c)
    ELSE IF IsLowerHex(<<c>>) THEN 87 + HexValue(c)
    ELSE 0

RECURSIVE LexLeq(_, _)
\* a <= b for two texts, as Python compares str
LexLeq(a, b) ==
    IF a = <<>> THEN TRUE
    ELSE IF b = <<>> THEN FALSE
    ELSE IF a[1] = b[1] THEN LexLeq(Tail(a), Tail(b))
    ELSE CharRank(a[1]) < CharRank(b[1])

\* The query path is the prefix followed by the digests in lexicographic
\* order joined by "+"
SortedQueryPath(path, prefix, digests) ==
    LET items == IF Tail(path) = <<>> THEN <<>> ELSE Split(Tail(path), "+")
    IN  /\ Head(path) = prefix
        /\ items \in Shuffles(digests)
        /\ \A i \in 1..(Len(items) - 1) : LexLeq(items[i], items[i + 1])

\* C20: the query path for server descriptors is "/tor/server/d/" and the
\* one for extra-info descriptors "/tor/extra/d/", followed by the digests
\* sorted lexicographically and joined by "+"; every order of the same
\* digests gives the same query path
C20_QueryPathSorted ==
    /\ invoked.fn = "relay_server_descriptors_query_path"
       => /\ SortedQueryPath(invoked.result, "/tor/server/d/", invoked.args[1])
          /\ \A other \in Shuffles(invoked.args[1]) :
                relay_server_descriptors_query_path(other) = invoked.result
    /\ invoked.fn = "relay_extra_info_descriptors_query_path"
       => /\ SortedQueryPath(invoked.result, "/tor/extra/d/", invoked.args[1])
          /\ \A other \in Shuffles(invoked.args[1]) :
                relay_extra_info_descriptors_query_path(other) = invoked.result

(***************************************************************************)
(* The vote getter with "*" for the digest                                 *)
(***************************************************************************)

\* The file at path p is a vote of the authority v3ident for valid_after
IsVoteOf(p, v3ident, valid_after) ==
    \E d \in Docs :
        /\ d.is_vote
        /\ d.v3ident = v3ident
        /\ d.time = valid_after
        /\ p = path_for(d, utcnow)

\* The valid-after time a getter looks under: the time given, else the top
\* of the current hour
HintOf(rec) == IF rec.hinted THEN rec.doc.time ELSE valid_after_now(utcnow)

\* C19: relay_vote(v3ident, "*", valid_after) returns None when the archive
\* holds no vote of that authority for that time; otherwise it reads the
\* file whose name is lexicographically first among those votes, never a
\* vote of another authority or time; with a digest given the getter does
\* not glob and reads the file of exactly that name
C19_VoteGlobFirst ==
    [][\A t \in ArchiveTasks :
          /\ (atask[t].pc = "glob" /\ atask'[t].pc # "cancelled" /\ atask'[t] # atask[t])
             => LET votes == {p \in DOMAIN files :
                                 IsVoteOf(p, atask[t].doc.v3ident, atask[t].hint)}
                IN  IF votes = {}
                    THEN atask'[t] = Ended("done", None)
                    ELSE /\ atask'[t].pc \in {"gopen", "acquire"}
                         /\ atask'[t].path \in votes
                         /\ \A p \in votes : LexLeq(atask'[t].path, p)
          /\ (atask[t].pc = "idle" /\ atask'[t].op = "relay_vote" /\ atask'[t].pc # "glob")
             => /\ atask'[t].pc \in {"gopen", "acquire"}
                /\ atask'[t].path = relay_vote_path(HintOf(atask'[t]), atask'[t].doc.v3ident,
                                                    VoteDigest(atask'[t].doc))
      ]_vars

(***************************************************************************)
(* The case of the digests in a query path                                 *)
(***************************************************************************)

\* The query path is the prefix followed by the digests, each in upper case,
\* joined by "+"
UpperCasedQueryPath(path, prefix, digests) ==
    LET items == IF Tail(path) = <<>> THEN <<>> ELSE Split(Tail(path), "+")
    IN  /\ Head(path) = prefix
        /\ Len(items) = Len(digests)
        /\ \A i \in 1..Len(items) : IsUpperHex(items[i]) /\ SameHex(items[i], digests[i])

\* Two lists of digests that differ at most in the case of the letters
SameDigests(a, b) == Len(a) = Len(b) /\ \A i \in 1..Len(a) : SameHex(a[i], b[i])

\* C21: the query paths for server descriptors and for extra-info
\* descriptors hold every digest in upper case, so lists of digests that
\* differ only in the case of the letters give the same query path; the
\* query path for microdescriptors is "/tor/micro/d/" followed by the hashes
\* joined by "-", in the case and the order they were given in
C21_QueryPathUpperCased ==
    /\ invoked.fn = "relay_server_descriptors_query_path"
       => /\ UpperCasedQueryPath(invoked.result, "/tor/server/d/", invoked.args[1])
          /\ \A other \in QueryLists :
                SameDigests(other, invoked.args[1])
                => relay_server_descriptors_query_path(other) = invoked.result
    /\ invoked.fn = "relay_extra_info_descriptors_query_path"
       => /\ UpperCasedQueryPath(invoked.result, "/tor/extra/d/", invoked.args[1])
          /\ \A other \in QueryLists :
                SameDigests(other, invoked.args[1])
                => relay_extra_info_descriptors_query_path(other) = invoked.result
    /\ invoked.fn = "relay_microdescriptors_query_path"
       => /\ Head(invoked.result) = "/tor/micro/d/"
          /\ (IF Tail(invoked.result) = <<>> THEN <<>> ELSE Split(Tail(invoked.result), "-"))
                = invoked.args[1]

(***************************************************************************)
(* Properties of the downloader's modes and of its consensus requests      *)
(***************************************************************************)

\* C22: every consensus request of the downloader asks for
\* /tor/status-vote/current/consensus when the flavor is "ns" and for
\* /tor/status-vote/current/consensus-microdesc when it is "microdesc"
C22_ConsensusRequestPath ==
    \A t \in StatusTasks :
        (dtask[t].pc = "request" /\ dtask[t].kind \in {"ns", "microdesc"})
        => dtask[t].resource = IF dtask[t].kind = "ns"
                               THEN <<"/tor/status-vote/current/consensus">>
                               ELSE <<"/tor/status-vote/current/consensus", "-", "microdesc">>

\* The set of the items of a list
ItemsOf(list) == {list[i] : i \in 1..Len(list)}

\* C23: after set_mode(TESTING), whatever the mode before, endpoints and
\* extra_info_endpoints are both the list of LOCAL_DIRECTORY_CACHE alone
C23_TestingEndpoints ==
    mode.argument = TESTING
    => /\ endpoints = <<LOCAL_DIRECTORY_CACHE>>
       /\ extra_info_endpoints = <<LOCAL_DIRECTORY_CACHE>>

\* C24: once set_mode(DIRECTORY_CACHE) or set_mode(CLIENT) was the latest
\* mode set, whatever the consensus, the routers and the descriptor cache
\* were and have become since, every authority's directory port is among
\* extra_info_endpoints and every one of extra_info_endpoints is among
\* endpoints
C24_EndpointsNested ==
    mode.argument \in {DIRECTORY_CACHE, CLIENT}
    => /\ ItemsOf(directory_authorities) \subseteq ItemsOf(extra_info_endpoints)
       /\ ItemsOf(extra_info_endpoints) \subseteq ItemsOf(endpoints)

\* CLIENT was set with a consensus listing two directory caches of which the
\* descriptor cache knows one as an extra-info cache: extra_info_endpoints
\* lies strictly between the authorities and endpoints
C24_Witness ==
    /\ mode.argument = CLIENT
    /\ ItemsOf(extra_info_endpoints) = ItemsOf(directory_authorities) \cup {"10.0.0.1:80"}
    /\ ItemsOf(endpoints) = ItemsOf(extra_info_endpoints) \cup {"10.0.0.4:443"}

\* C25: set_mode with a value that is none of the three modes ends with an
\* error; it never returns normally
C25_UnknownModeRejected ==
    mode.argument \notin DirectoryCacheMode => mode.raised

(***************************************************************************)
(* Properties of the itemizer of directory documents                       *)
(***************************************************************************)

\* The kinds of token the state machine has a transition for, by state
ListedKinds(state) ==
    CASE state = "START" -> {"PRINTABLE"}
      [] state = "KEYWORD-LINE" -> {"WS", "NL"}
      [] state = "KEYWORD-LINE-WS" -> {"PRINTABLE", "NL"}
      [] state = "KEYWORD-LINE-END" -> {"BEGIN", "PRINTABLE", "EOF"}
      [] state = "OBJECT-DATA" -> {"PRINTABLE", "END"}
      [] state = "OBJECT-DATA-EOL" -> {"NL"}
      [] OTHER -> {}

\* This step is a call of eat(); the token eaten is itemizer'.token
EatStep == eaten'.calls = eaten.calls + 1

\* What an itemizer holds apart from the token it was last given
ItemizerState(self) ==
    <<self.state, self.allowed_errors, self.keyword, self.arguments, self.objects,
      self.errors, self.object_keyword, self.object_data>>

\* C26: in every state of the itemizer, eating a token of a kind with no
\* transition from that state raises an error whose message gives the line
\* and the column of that token; no item is returned and the state, the
\* item in progress and the object in progress are as before
C26_UnlistedTokenFatal ==
    [][(EatStep /\ itemizer'.token.kind \notin ListedKinds(itemizer.state))
       => /\ eaten'.raised # "none"
          /\ eaten'.line = itemizer'.token.line
          /\ eaten'.column = itemizer'.token.column
          /\ eaten'.value = <<>>
          /\ ItemizerState(itemizer') = ItemizerState(itemizer)
      ]_vars

\* Inside an object, after a line of data, a BEGIN token found on line 2 at
\* column 13 was refused
C26_Witness ==
    /\ itemizer.state = "OBJECT-DATA-EOL"
    /\ itemizer.object_data = <<"QUJD">>
    /\ itemizer.token = DirectoryDocumentToken("BEGIN", "ONION MAGIC", 2, 13)
    /\ eaten.raised = "expected_not_found"
    /\ eaten.line = 2
    /\ eaten.column = 13

\* C27: when NL comes directly after whitespace on a keyword line and
\* trailing-whitespace is allowed, the error is appended to the errors of
\* the item in progress and the itemizer is otherwise where NL without the
\* whitespace takes it (same keyword, arguments and objects, state
\* KEYWORD-LINE-END); when it is not allowed, eat() raises an error that
\* gives the line and the column and returns no item, and the itemizer is
\* fed no more. An item is returned with the errors recorded while it was in
\* progress, and none of them is carried to the next item
C27_TrailingWhitespace ==
    /\ [](itemizer.state \in {"START", "KEYWORD-LINE", "KEYWORD-LINE-WS"}
          => itemizer.errors = <<>>)
    /\ [](eaten.raised # "none" => eaten.value = <<>>)
    /\ [][/\ eaten.raised # "none" => ~EatStep
          /\ (EatStep /\ itemizer.state = "KEYWORD-LINE-WS" /\ itemizer'.token.kind = "NL")
             => IF \E i \in 1..Len(itemizer.allowed_errors) :
                       itemizer.allowed_errors[i] = TRAILING_WHITESPACE
                THEN /\ eaten'.raised = "none"
                     /\ eaten'.value = <<>>
                     /\ itemizer' = [itemizer EXCEPT
                                        !.token = itemizer'.token,
                                        !.state = "KEYWORD-LINE-END",
                                        !.errors = Append(itemizer.errors, TRAILING_WHITESPACE)]
                ELSE /\ eaten'.raised = TRAILING_WHITESPACE
                     /\ eaten'.line = itemizer'.token.line
                     /\ eaten'.column = itemizer'.token.column
                     /\ eaten'.value = <<>>
          /\ (EatStep /\ eaten'.value # <<>>)
             => /\ eaten'.value = <<DirectoryDocumentItem(itemizer.keyword, itemizer.arguments,
                                                          itemizer.objects, itemizer.errors)>>
                /\ itemizer'.errors = <<>>
         ]_vars

\* An item with one argument whose keyword line ended in whitespace was
\* returned at EOF with the error on its list
C27_Witness ==
    /\ itemizer.token.kind = "EOF"
    /\ eaten.value = <<DirectoryDocumentItem("onion-magic", <<"QUJD">>, <<>>,
                                             <<TRAILING_WHITESPACE>>)>>

\* C28: eating EOF in KEYWORD-LINE-END returns the last item, and from then
\* on the itemizer takes no token: every further eat() raises and returns no
\* item
C28_DoneAfterEOF ==
    [][/\ (EatStep /\ itemizer.state = "KEYWORD-LINE-END" /\ itemizer'.token.kind = "EOF")
          => eaten'.value = <<DirectoryDocumentItem(itemizer.keyword, itemizer.arguments,
                                                    itemizer.objects, itemizer.errors)>>
       /\ (EatStep /\ itemizer.token.kind = "EOF" /\ eaten.raised = "none")
          => /\ eaten'.raised # "none"
             /\ eaten'.value = <<>>
      ]_vars

\* The k-th smallest of a set of positions
Nth(positions, k) == CHOOSE i \in positions : Cardinality({j \in positions : j < i}) = k - 1

\* The first of a set of positions
First(positions) == Nth(positions, 1)

\* The i-th token fed lies inside an object: a BEGIN before it has no END yet
InObject(i) ==
    \E b \in 1..(i - 1) :
        /\ eaten.fed[b].kind = "BEGIN"
        /\ \A k \in (b + 1)..(i - 1) : eaten.fed[k].kind # "END"

\* The positions at which keyword lines begin: a PRINTABLE outside objects
\* that is the first token or follows the end of a line
KeywordLines ==
    {i \in 1..Len(eaten.fed) :
        /\ eaten.fed[i].kind = "PRINTABLE"
        /\ ~InObject(i)
        /\ i = 1 \/ eaten.fed[i - 1].kind \in {"NL", "END"}}

\* The positions whose token ends an item: the keyword of a next keyword
\* line, and EOF
ItemEnds ==
    {i \in 1..Len(eaten.fed) : (i > 1 /\ i \in KeywordLines) \/ eaten.fed[i].kind = "EOF"}

\* The values of the PRINTABLE tokens at the positions given, in order
PrintablesIn(positions) ==
    LET printable == {i \in positions : eaten.fed[i].kind = "PRINTABLE"}
    IN  [j \in 1..Cardinality(printable) |-> eaten.fed[Nth(printable, j)].value]

\* The item of the k-th keyword line, read off the tokens fed: the keyword,
\* the PRINTABLE tokens up to the end of the line, an object for each BEGIN
\* up to the end of the item with its data lines decoded, and the trailing
\* whitespace of the line
ItemOfLine(k) ==
    LET start == Nth(KeywordLines, k)
        end == Nth(ItemEnds, k)
        eol == First({i \in (start + 1)..end : eaten.fed[i].kind = "NL"})
        begins == {i \in (start + 1)..(end - 1) : eaten.fed[i].kind = "BEGIN"}
        ObjectAt(b) ==
            LET last == First({i \in (b + 1)..end : eaten.fed[i].kind = "END"})
                lines == PrintablesIn((b + 1)..(last - 1))
            IN  [keyword |-> eaten.fed[b].value,
                 data |-> [j \in 1..Len(lines) |-> IF lines[j] = "QUJD" THEN "ABC" ELSE "?"]]
    IN  DirectoryDocumentItem(
            eaten.fed[start].value,
            PrintablesIn((start + 1)..(eol - 1)),
            [j \in 1..Cardinality(begins) |-> ObjectAt(Nth(begins, j))],
            IF eaten.fed[eol - 1].kind = "WS" THEN <<TRAILING_WHITESPACE>> ELSE <<>>)

IsHeaderLines(kinds) ==
    /\ Len(kinds) % 2 = 0
    /\ \A i \in 1..Len(kinds) : kinds[i] = IF i % 2 = 1 THEN "KEYVALUE" ELSE "NL"

\* KEYVALUE (SP KEYVALUE)*, with at least spaces spaces
IsRelayLine(kinds, spaces) ==
    /\ Len(kinds) % 2 = 1
    /\ Len(kinds) >= 2 * spaces + 1
    /\ \A i \in 1..Len(kinds) : kinds[i] = IF i % 2 = 1 THEN "KEYVALUE" ELSE "SP"

\* (KEYVALUE (SP KEYVALUE)* NL)*, every line with at least spaces spaces
IsRelayLines(kinds, spaces) ==
    \/ kinds = <<>>
    \/ /\ kinds[Len(kinds)] = "NL"
       /\ LET lines == Split(SubSeq(kinds, 1, Len(kinds) - 1), "NL")
          IN  \A i \in 1..Len(lines) : IsRelayLine(lines[i], spaces)

\* TIMESTAMP NL (KEYVALUE NL)* (TERMINATOR | SHORT_TERMINATOR)
\* (KEYVALUE (SP KEYVALUE)* NL)* EOF
IsTerminatedForm(kinds) ==
    /\ Len(kinds) >= 4
    /\ kinds[1] = "TIMESTAMP"
    /\ kinds[2] = "NL"
    /\ kinds[Len(kinds)] = "EOF"
    /\ \E i \in 3..(Len(kinds) - 1) :
          /\ kinds[i] \in {"TERMINATOR", "SHORT_TERMINATOR"}
          /\ IsHeaderLines(SubSeq(kinds, 3, i - 1))
          /\ IsRelayLines(SubSeq(kinds, i + 1, Len(kinds) - 1), 0)

\* The form of version 1.0.0: TIMESTAMP NL (KEYVALUE (SP KEYVALUE)+ NL)+ EOF
IsVersion100Form(kinds) ==
    /\ Len(kinds) >= 4
    /\ kinds[1] = "TIMESTAMP"
    /\ kinds[2] = "NL"
    /\ kinds[Len(kinds)] = "EOF"
    /\ Len(kinds) > 3
    /\ IsRelayLines(SubSeq(kinds, 3, Len(kinds) - 1), 1)

\* The sequence is how a sequence of one of the two forms begins: up to
\* three more tokens make it one
BeginsForm(kinds) ==
    \E rest \in UNION {[1..n -> {token.kind : token \in BandwidthFileTokens}] : n \in 0..3} :
        IsTerminatedForm(kinds \o rest) \/ IsVersion100Form(kinds \o rest)

\* The place of a state in START, TIMESTAMP, HEADER-LINE*, RELAY-LINE*, DONE
Phase(state) ==
    CASE state = "START" -> 1
      [] state = "TIMESTAMP" -> 2
      [] state \in {"HEADER-LINE", "HEADER-LINE-KV"} -> 3
      [] state \in {"RELAY-LINE", "RELAY-LINE-KV", "RELAY-LINE-SP"} -> 4
      [] state = "DONE" -> 5

C30_WitnessTerminated ==
    /\ lined.fed = <<"TIMESTAMP", "NL", "KEYVALUE", "NL", "SHORT_TERMINATOR",
                     "KEYVALUE", "SP", "KEYVALUE", "NL", "EOF">>
    /\ lined.raised = "none"
    /\ liner.state = "DONE"

\* The forgivable error of the i-th token fed, "none" when that token is no
\* such error: a SHORT_TERMINATOR where the terminator is expected, a space
\* after a key-value of the header
ForgivableError(i) ==
    IF lined.passed[i] = "HEADER-LINE" /\ lined.fed[i] = "SHORT_TERMINATOR" THEN SHORT_TERMINATOR
    ELSE IF lined.passed[i] = "HEADER-LINE-KV" /\ lined.fed[i] = "SP" THEN "space-after-header"
    ELSE "none"

\* C31: a SHORT_TERMINATOR in the header and a space after a key-value of
\* the header are forgivable errors: eat() raises on them unless the error is
\* in the list of allowed errors the liner was constructed with, and only
\* then goes on, to RELAY-LINE and to RELAY-LINE-SP
C31_ForgivableErrors ==
    \A i \in 1..Len(lined.fed) :
        ForgivableError(i) # "none"
        => IF \E k \in 1..Len(lined.allowed) : lined.allowed[k] = ForgivableError(i)
           THEN /\ i < Len(lined.fed) \/ lined.raised = "none"
                /\ lined.passed[i + 1]
                     = (IF lined.fed[i] = "SP" THEN "RELAY-LINE-SP" ELSE "RELAY-LINE")
           ELSE i = Len(lined.fed) /\ lined.raised # "none"

(***************************************************************************)
(* Properties of the tokenizer of directory documents                      *)
(***************************************************************************)

\* C29: a document of a keyword line with one argument, a keyword line
\* without argument and one object, each line ended by LF, is tokenized
\* without error into PRINTABLE, WS, PRINTABLE, NL, PRINTABLE, NL, BEGIN, NL,
\* PRINTABLE, NL, END, EOF: the keyword and the argument, the second
\* keyword, the object keyword alone as the value of BEGIN and of END, an NL
\* after the BEGIN line, the object data, and EOF last
C29_TokenSequence ==
    invoked.fn = "tokenize"
    => \A keyword \in Words, argument \in Words, second \in Words,
          object_keyword \in ObjectKeywords, data \in ObjectData :
          invoked.args[1] = ObjectDocument(keyword, argument, second, object_keyword, data)
          => LET tokens == invoked.result.tokens
             IN  /\ invoked.result.raised = "none"
                 /\ [i \in 1..Len(tokens) |-> tokens[i].kind]
                      = <<"PRINTABLE", "WS", "PRINTABLE", "NL", "PRINTABLE", "NL",
                          "BEGIN", "NL", "PRINTABLE", "NL", "END", "EOF">>
                 /\ tokens[1].value = keyword
                 /\ tokens[3].value = argument
                 /\ tokens[5].value = second
                 /\ tokens[7].value = object_keyword
                 /\ tokens[9].value = data
                 /\ tokens[11].value = object_keyword

(***************************************************************************)
(* Properties of the scraper                                               *)
(***************************************************************************)

\* The digests the statuses of the latest discovery reference
ReferencedDigests ==
    UNION {{status.routers[i] : i \in 1..Len(status.routers)} :
              status \in {discovered.statuses[k] : k \in 1..Len(discovered.statuses)}}

\* The endpoints of the votes, among the statuses of the latest discovery,
\* that reference the digest
VotingEndpoints(digest) ==
    LET voters == {k \in 1..Len(discovered.statuses) :
                     /\ discovered.statuses[k].is_vote
                     /\ \E i \in 1..Len(discovered.statuses[k].routers) :
                           discovered.statuses[k].routers[i] = digest}
    IN  {dir_port_from_v3ident(discovered.statuses[k].v3ident) : k \in voters}

\* The digests are deduplicated: referencing_endpoints has exactly the
\* digests referenced as its keys, and with endpoint preference each of them
\* lies in the assignment of exactly one endpoint
Deduplicated ==
    /\ DOMAIN discovered.referencing = ReferencedDigests
    /\ discovered.preference
       => /\ \A digest \in ReferencedDigests :
                Cardinality({endpoint \in DOMAIN discovered.assignments :
                                digest \in discovered.assignments[endpoint]}) = 1
          /\ \A endpoint \in DOMAIN discovered.assignments :
                discovered.assignments[endpoint] \subseteq ReferencedDigests

\* C32: the digests referenced by the statuses are deduplicated and then
\* requested: each distinct digest is requested from the cache exactly once
\* (with endpoint preference it lies in exactly one assignment), however many
\* statuses reference it, and no digest that no status references is
\* requested
C32_RequestedOnce ==
    /\ Deduplicated
    /\ \A digest \in ReferencedDigests :
          Cardinality({request \in discovered.requests : digest \in request.digest}) = 1
    /\ \A request \in discovered.requests : request.digest \subseteq ReferencedDigests

\* C33: with endpoint preference every digest that a vote references is
\* assigned to the directory port of an authority whose own vote references
\* it, never to another endpoint and never to no endpoint
C33_EndpointPreference ==
    discovered.preference
    => \A digest \in ReferencedDigests :
          VotingEndpoints(digest) # {}
          => \A endpoint \in DOMAIN discovered.assignments :
                digest \in discovered.assignments[endpoint]
                => endpoint # "None" /\ endpoint \in VotingEndpoints(digest)

\* C34: a scrape cycle completes normally, whatever the mode it is run in
C34_ScrapeCompletes == scraped.ended => scraped.raised = "none"

(***************************************************************************)
(* Storing a document more than once                                       *)
(***************************************************************************)

\* The paths that stores of the document d have written
StoredPaths(d) == {r.path : r \in {s \in stored : s.doc = d}}

\* Every coroutine of the archive has returned normally or has not begun:
\* none is under way, none has failed or been cancelled
ArchiveSettled == \A t \in ArchiveTasks : atask[t].pc \in {"idle", "done"}

\* C35: store is idempotent by path: once the stores made have returned, a
\* document that was stored, however often and by however many coroutines,
\* has exactly one file, at the one path its stores have written, holding
\* its annotated content, and every other file of the archive is as it was
C35_StoreIdempotent ==
    ArchiveSettled
    => /\ \A d \in ArchiveDocs :
             StoredPaths(d) # {}
             => /\ Cardinality(StoredPaths(d)) = 1
                /\ \A p \in StoredPaths(d) :
                      p \in DOMAIN files /\ files[p] = prepare_annotated_content(d)
       /\ \A p \in DOMAIN files :
             (\A d \in ArchiveDocs : p \notin StoredPaths(d))
             => p \in DOMAIN KeptFiles /\ files[p] = KeptFiles[p]

(***************************************************************************)
(* Properties of the monitoring checks                                     *)
(***************************************************************************)

\* The age in seconds of the timestamp at the time of the check
AgeAt(now, dt) ==
    (now.hour * 3600 + now.minute * 60 + now.second)
        - (dt.hour * 3600 + dt.minute * 60 + dt.second)

\* C36: utc_datetime_too_old classifies by the age of the oldest timestamp
\* alone: CRITICAL when the age is above critical_if_older, otherwise WARNING
\* when it is above warning_if_older, otherwise OK, an age that equals a
\* threshold not being above it; the message names the key and the time of
\* an oldest entry
C36_TooOld ==
    invoked.fn = "utc_datetime_too_old"
    => LET dts == invoked.args[1]
           warning_if_older == invoked.args[2]
           critical_if_older == invoked.args[3]
           now == invoked.args[4]
           status == invoked.result[1]
           message == invoked.result[2]
           age == CHOOSE a \in {AgeAt(now, dts[i].dt) : i \in 1..Len(dts)} :
                      \A i \in 1..Len(dts) : AgeAt(now, dts[i].dt) <= a
       IN  /\ status = (IF age > critical_if_older THEN CRITICAL
                        ELSE IF age > warning_if_older THEN WARNING
                        ELSE OK)
           /\ message.sec = age
           /\ \E i \in 1..Len(dts) :
                 /\ dts[i].key = message.key
                 /\ dts[i].dt = message.iso
                 /\ AgeAt(now, dts[i].dt) = age

\* A timestamp that is not the first of the dict is the oldest, its age is
\* the warning threshold and below the critical one, and the check says OK
C36_Witness ==
    /\ invoked.fn = "utc_datetime_too_old"
    /\ Len(invoked.args[1]) = 2
    /\ invoked.args[1][2].dt = DateTime(2019, 5, 3, 17, 20, 20)
    /\ invoked.args[1][1].dt = DateTime(2019, 5, 3, 17, 20, 30)
    /\ invoked.args[2] = 30
    /\ invoked.args[3] = 60
    /\ invoked.result[1] = OK
    /\ invoked.result[2].key = "ts2"

\* The vote is one of the authority and, when a digest was asked for, has it
AsAsked(d, v3ident, digest) ==
    /\ Upper(d.v3ident) = Upper(v3ident)
    /\ digest # <<"*">> => VoteDigest(d) = Upper(digest)

\* C38: vote(v3ident, digest, valid_after) returns and stores only a vote
\* of the authority v3ident that has the digest when a concrete digest is
\* given; when the archive holds such a vote the downloader is not asked;
\* None is returned only when the archive held no such vote and the
\* downloader was asked
C38_VoteAsAsked ==
    voting.pc = "done"
    => /\ \A i \in 1..Len(voting.vote) : AsAsked(voting.vote[i], voting.v3ident, voting.digest)
       /\ \A d \in voting.stored : AsAsked(d, voting.v3ident, voting.digest)
       /\ (\E d \in voting.before :
              d.time = voting.valid_after /\ AsAsked(d, voting.v3ident, voting.digest))
          => ~voting.asked
       /\ voting.vote = <<>>
          => /\ voting.asked
             /\ ~\E d \in voting.before :
                    d.time = voting.valid_after /\ AsAsked(d, voting.v3ident, voting.digest)

(***************************************************************************)
(* The requests of a batch                                                 *)
(***************************************************************************)

\* The batch coroutine t is at a request: it waits for the lock with its
\* endpoint popped, or has issued the request
AtRequest(t) == dtask[t].pc \in {"acquire", "request"}

\* C40: within one batch call each request asks for exactly the digests of
\* the batch of which no descriptor has been received, so none for a digest
\* that an earlier endpoint has sent; the outstanding digests only become
\* fewer; no endpoint is queried twice; and no request is made once no
\* digest is outstanding
C40_OutstandingOnly ==
    /\ [](\A t \in BatchTaskSet :
             AtRequest(t)
             => /\ Elements(dtask[t].digests)
                     = Elements(dtask[t].asked) \ Elements(dtask[t].descriptors)
                /\ dtask[t].digests # <<>>
                /\ dtask[t].pc = "request" => dtask[t].endpoint \notin dtask[t].queried)
    /\ [][\A t \in BatchTaskSet :
             AtRequest(t) => Elements(dtask'[t].digests) \subseteq Elements(dtask[t].digests)
         ]_vars

(***************************************************************************)
(* Specifications                                                          *)
(***************************************************************************)

Init ==
    /\ ArchiveInit
    /\ DownloadInit
    /\ CacheInit
    /\ FunctionsInit
    /\ ItemizerInit
    /\ LinerInit
    /\ ScraperInit

SpecArchive == Init /\ [][ArchiveNext]_vars

SpecDownloader == Init /\ [][DownloadNext]_vars

SpecCache == Init /\ [][CacheNext]_vars

SpecVotes == Init /\ [][VotesNext]_vars

SpecClient == Init /\ [][ClientNext]_vars

SpecFunctions == Init /\ [][FunctionsNext]_vars

SpecModes == Init /\ [][ModesNext]_vars

SpecItemizer == Init /\ [][ItemizerNext]_vars

SpecLiner == Init /\ [][LinerNext]_vars

SpecScraper == Init /\ [][ScraperNext]_vars

====
